---------------------------- MODULE Spec2Model ----------------------------
(***************************************************************************)
(* Model of the publishing decision pipeline of the tweet bot:             *)
(*   app/safety_enhanced.py  (SafetyChecker)                               *)
(*   app/quota.py            (QuotaManager, sliding windows)               *)
(*   app/audit_db.py         (AuditDB: drafts, review_queue, posts)        *)
(*   app/poster_safe.py      (SafePoster.post / SafePoster.reply)          *)
(*                                                                         *)
(* Texts are sequences of one-character strings, timestamps are seconds.   *)
(* SafePoster.post runs on the post_job thread, SafePoster.reply on the    *)
(* mention_job thread; every store call and every QuotaManager call is one *)
(* atomic step (each takes its own lock), so the two threads interleave    *)
(* between the calls exactly where the code releases the locks.            *)
(* Store writes succeed in Spec, SpecStore and SpecQuota (lock contention   *)
(* is absorbed by _with_retry); SpecJobs adds failing store writes to the  *)
(* jobs, and SpecWrite runs the store's writes one statement at a time     *)
(* with _write_lock, SQLite's write lock, contention and rollback.         *)
(* SpecMentions runs mention_job firing after firing over the mentions the *)
(* platform returns.                                                       *)
(***************************************************************************)
EXTENDS Integers, Sequences, FiniteSets, TLC

VARIABLES
    Config,                  \* app.config.Config values read by the pipeline
    now,                     \* QuotaManager._now(), in seconds
    ticks,                   \* number of clock advances so far
    drafts,                  \* table drafts, row id = index
    review_queue,            \* table review_queue, row id = index
    posts,                   \* table posts
    post_events,             \* QuotaManager._post_events
    reply_daily_events,      \* QuotaManager._reply_daily_events
    reply_hour_events,       \* QuotaManager._reply_hour_events
    reply_user_hour_events,  \* QuotaManager._reply_user_hour_events
    monthly_events,          \* QuotaManager._monthly_events
    pc,                      \* position of each job thread inside post / reply
    run,                     \* locals and return value of each thread's call
    post_history,            \* every timestamp record_post has appended
    conflicts,               \* times queue_for_review met an existing row
    write_lock,              \* audit_db._write_lock: the thread holding it
    db_lock,                 \* SQLite's write lock on bot_audit.db: its holder
    call,                    \* each thread's audit-store call in progress
    propagated,              \* the exception that left each job function
    checked,                 \* the last run_safety_checks call and its result
    sched,                   \* the scheduler's view of each job
    safety_checks,           \* table safety_checks
    context,                 \* column context of table drafts, by row id
    mention_entries          \* mention_job: the entries still to be handled

vars == << Config, now, ticks, drafts, review_queue, posts, post_events,
           reply_daily_events, reply_hour_events, reply_user_hour_events,
           monthly_events, pc, run, post_history, conflicts, write_lock,
           db_lock, call, propagated, checked, sched, safety_checks,
           context, mention_entries >>

storeVars == << drafts, review_queue, posts >>
quotaVars == << post_events, reply_daily_events, reply_hour_events,
                reply_user_hour_events, monthly_events, post_history >>
threadVars == << pc, run >>
writeVars == << write_lock, db_lock, call >>
faultVars == << write_lock, db_lock, call, propagated, checked, sched,
               safety_checks, context, mention_entries >>
auditVars == << safety_checks, context, mention_entries >>

NULL == "NULL"

(***************************************************************************)
(* Bounds of the model.                                                    *)
(***************************************************************************)
MaxDrafts == 2
MaxTicks == 2
MaxStoreDrafts == 2
MaxStoreTicks == 1
MaxConflicts == 2
MaxPipelineTicks == 1
MaxEvents == 2
MaxReplyEvents == 1
MaxWriteDrafts == 1
MaxWritePosts == 1
MaxSchedTicks == 3
MaxDupDrafts == 22
MaxDupSpecial == 1
MaxDupSkipped == 0
MaxMentionDrafts == 3

(***************************************************************************)
(* Characters and strings.                                                 *)
(***************************************************************************)
LowerLetters == << "a","b","c","d","e","f","g","h","i","j","k","l","m",
                   "n","o","p","q","r","s","t","u","v","w","x","y","z" >>
UpperLetters == << "A","B","C","D","E","F","G","H","I","J","K","L","M",
                   "N","O","P","Q","R","S","T","U","V","W","X","Y","Z" >>
Whitespace == { " ", "\t", "\n" }

\* str.lower() on one character
LowerChar(c) ==
    IF \E i \in 1..26 : UpperLetters[i] = c
    THEN LowerLetters[CHOOSE i \in 1..26 : UpperLetters[i] = c]
    ELSE c

\* str.lower()
lower(s) == [i \in 1..Len(s) |-> LowerChar(s[i])]

\* str.strip()
strip(s) ==
    LET keep == { i \in 1..Len(s) : s[i] \notin Whitespace }
    IN  IF keep = {} THEN << >>
        ELSE LET lo == CHOOSE i \in keep : \A j \in keep : i <= j
                 hi == CHOOSE i \in keep : \A j \in keep : j <= i
             IN  SubSeq(s, lo, hi)

\* Python's  kw in s
Contains(s, kw) ==
    \E i \in 1..(Len(s) - Len(kw) + 1) :
        \A j \in 1..Len(kw) : s[i + j - 1] = kw[j]

\* byte order of two lower-case letters, as SQLite's BINARY collation sees them
Ord(c) == CHOOSE i \in 1..26 : LowerLetters[i] = c

\* s < t in SQLite's BINARY collation (memcmp, then length)
RECURSIVE TextLess(_, _)
TextLess(s, t) ==
    IF s = << >> THEN t # << >>
    ELSE IF t = << >> THEN FALSE
    ELSE IF Head(s) # Head(t) THEN Ord(Head(s)) < Ord(Head(t))
    ELSE TextLess(Tail(s), Tail(t))

(***************************************************************************)
(* app/safety_enhanced.py                                                  *)
(***************************************************************************)
PROFANITY_KEYWORDS == <<
    << "b","a","d","w","o","r","d","1" >>,
    << "b","a","d","w","o","r","d","2" >>,
    << "o","f","f","e","n","s","i","v","e" >>
>>

FINANCIAL_ADVICE_KEYWORDS == <<
    << "b","u","y"," ","n","o","w" >>,
    << "s","e","l","l"," ","n","o","w" >>,
    << "g","u","a","r","a","n","t","e","e","d" >>,
    << "s","u","r","e"," ","t","h","i","n","g" >>,
    << "i","n","v","e","s","t","m","e","n","t"," ","a","d","v","i","c","e" >>,
    << "g","u","a","r","a","n","t","e","e","d"," ","r","e","t","u","r","n" >>,
    << "w","i","l","l"," ","m","a","k","e"," ","y","o","u"," ","m","o","n","e","y" >>,
    << "c","a","n","'","t"," ","l","o","s","e" >>,
    << "e","a","s","y"," ","p","r","o","f","i","t" >>,
    << "p","u","m","p" >>,
    << "d","u","m","p" >>,
    << "m","o","o","n" >>,
    << "t","o"," ","t","h","e"," ","m","o","o","n" >>
>>

SUSPICIOUS_URL_PATTERNS == <<
    << "b","i","t",".","l","y" >>,
    << "t","i","n","y","u","r","l" >>,
    << "s","h","o","r","t",".","l","i","n","k" >>
>>

TOXICITY_KEYWORDS == <<
    << "s","c","a","m" >>,
    << "r","u","g"," ","p","u","l","l" >>,
    << "e","x","i","t"," ","s","c","a","m" >>,
    << "h","a","c","k" >>,
    << "s","t","o","l","e","n" >>
>>

\* [kw for kw in keywords if kw in text_lower] is not empty
AnyKeyword(keywords, text_lower) ==
    \E k \in 1..Len(keywords) : Contains(text_lower, keywords[k])

SafetyCheckResult(passed, flags) == [passed |-> passed, flags |-> flags]

\* mutant of check_length: a text of exactly 280 characters is too long
check_length_Exclusive(text) ==
    IF Len(text) < 280 THEN SafetyCheckResult(TRUE, << >>)
    ELSE SafetyCheckResult(FALSE, << "text_too_long" >>)

check_length(text) ==
    IF Len(text) <= 280 THEN SafetyCheckResult(TRUE, << >>)
    ELSE SafetyCheckResult(FALSE, << "text_too_long" >>)

check_profanity(text) ==
    IF AnyKeyword(PROFANITY_KEYWORDS, lower(text))
    THEN SafetyCheckResult(FALSE, << "profanity_detected" >>)
    ELSE SafetyCheckResult(TRUE, << >>)

check_financial_advice(text) ==
    IF AnyKeyword(FINANCIAL_ADVICE_KEYWORDS, lower(text))
    THEN SafetyCheckResult(FALSE, << "financial_advice_detected" >>)
    ELSE SafetyCheckResult(TRUE, << >>)

\* does  https?://  match at position i of s; the length of the scheme if so
SchemeAt(s, i) ==
    IF i + 6 <= Len(s) /\ SubSeq(s, i, i + 6) = << "h","t","t","p",":","/","/" >>
    THEN 7
    ELSE IF i + 7 <= Len(s)
            /\ SubSeq(s, i, i + 7) = << "h","t","t","p","s",":","/","/" >>
    THEN 8
    ELSE 0

\* re.findall(r'https?://[^\s]+', text) scanning from position p
RECURSIVE FindUrls(_, _)
FindUrls(s, p) ==
    LET starts == { i \in p..Len(s) :
                      /\ SchemeAt(s, i) > 0
                      /\ i + SchemeAt(s, i) <= Len(s)
                      /\ s[i + SchemeAt(s, i)] \notin Whitespace }
    IN  IF starts = {} THEN << >>
        ELSE LET i == CHOOSE x \in starts : \A y \in starts : x <= y
                 stops == { j \in i..Len(s) : s[j] \in Whitespace }
                 e == IF stops = {} THEN Len(s)
                      ELSE (CHOOSE x \in stops : \A y \in stops : x <= y) - 1
             IN  << SubSeq(s, i, e) >> \o FindUrls(s, e + 1)

check_urls(text) ==
    LET urls == FindUrls(text, 1)
    IN  IF \E u \in 1..Len(urls) : AnyKeyword(SUSPICIOUS_URL_PATTERNS, lower(urls[u]))
        THEN SafetyCheckResult(FALSE, << "suspicious_urls" >>)
        ELSE SafetyCheckResult(TRUE, << >>)

check_toxicity(text) ==
    IF AnyKeyword(TOXICITY_KEYWORDS, lower(text)) /\ Len(text) < 100
    THEN SafetyCheckResult(FALSE, << "potential_toxicity" >>)
    ELSE SafetyCheckResult(TRUE, << >>)

check_minimum_length(text) ==
    IF Len(strip(text)) < 5
    THEN SafetyCheckResult(FALSE, << "text_too_short" >>)
    ELSE SafetyCheckResult(TRUE, << >>)

SAFETY_CHECKS == << "length", "minimum_length", "profanity",
                    "financial_advice", "urls", "toxicity" >>

check_func(check_name, text) ==
    CASE check_name = "length" -> check_length(text)
      [] check_name = "minimum_length" -> check_minimum_length(text)
      [] check_name = "profanity" -> check_profanity(text)
      [] check_name = "financial_advice" -> check_financial_advice(text)
      [] check_name = "urls" -> check_urls(text)
      [] check_name = "toxicity" -> check_toxicity(text)

\* the loop of run_safety_checks from check k on
RECURSIVE CollectFlags(_, _)
CollectFlags(text, k) ==
    IF k > Len(SAFETY_CHECKS) THEN << >>
    ELSE LET res == check_func(SAFETY_CHECKS[k], text)
         IN  (IF res.passed THEN << >> ELSE res.flags) \o CollectFlags(text, k + 1)

run_safety_checks(text) ==
    LET all_flags == CollectFlags(text, 1)
    IN  [passed |-> Len(all_flags) = 0, flags |-> all_flags]

passes_safety(text) == run_safety_checks(text).passed

get_safety_flags(text) == run_safety_checks(text).flags

\* f"{check_name}_error"
ErrorFlag(check_name) ==
    CASE check_name = "length" -> "length_error"
      [] check_name = "minimum_length" -> "minimum_length_error"
      [] check_name = "profanity" -> "profanity_error"
      [] check_name = "financial_advice" -> "financial_advice_error"
      [] check_name = "urls" -> "urls_error"
      [] check_name = "toxicity" -> "toxicity_error"

\* mutant of CollectFlagsRaising: the loop ends at the first check that raises
RECURSIVE CollectFlagsRaising_StopAtFault(_, _, _)
CollectFlagsRaising_StopAtFault(text, k, raising) ==
    IF k > Len(SAFETY_CHECKS) THEN << >>
    ELSE IF SAFETY_CHECKS[k] \in raising
    THEN << ErrorFlag(SAFETY_CHECKS[k]) >>
    ELSE LET res == check_func(SAFETY_CHECKS[k], text)
         IN  (IF res.passed THEN << >> ELSE res.flags)
                 \o CollectFlagsRaising_StopAtFault(text, k + 1, raising)

\* mutant of CollectFlagsRaising: a failed check's flags are put in front
RECURSIVE CollectFlagsRaising_Prepend(_, _, _)
CollectFlagsRaising_Prepend(text, k, raising) ==
    IF k > Len(SAFETY_CHECKS) THEN << >>
    ELSE IF SAFETY_CHECKS[k] \in raising
    THEN CollectFlagsRaising_Prepend(text, k + 1, raising)
             \o << ErrorFlag(SAFETY_CHECKS[k]) >>
    ELSE LET res == check_func(SAFETY_CHECKS[k], text)
         IN  CollectFlagsRaising_Prepend(text, k + 1, raising)
                 \o (IF res.passed THEN << >> ELSE res.flags)

\* the loop of run_safety_checks from check k on, when the checks named in
\* raising raise an exception: try / except Exception around each check
RECURSIVE CollectFlagsRaising(_, _, _)
CollectFlagsRaising(text, k, raising) ==
    IF k > Len(SAFETY_CHECKS) THEN << >>
    ELSE IF SAFETY_CHECKS[k] \in raising
    THEN << ErrorFlag(SAFETY_CHECKS[k]) >>
             \o CollectFlagsRaising(text, k + 1, raising)
    ELSE LET res == check_func(SAFETY_CHECKS[k], text)
         IN  (IF res.passed THEN << >> ELSE res.flags)
                 \o CollectFlagsRaising(text, k + 1, raising)

\* run_safety_checks(text) with the checks named in raising raising
run_safety_checks_raising(text, raising) ==
    LET all_flags == CollectFlagsRaising(text, 1, raising)
    IN  [passed |-> Len(all_flags) = 0, flags |-> all_flags]

\* no run_safety_checks call observed yet
NoCheck == [done |-> FALSE, text |-> << >>, raising |-> {}, passed |-> FALSE,
            flags |-> << >>]

(***************************************************************************)
(* Texts the jobs hand to the pipeline.                                    *)
(***************************************************************************)
TxtHello == << "h","e","l","l","o" >>
TxtHelloVariant == << "H","e","l","l","o"," " >>
TxtMoon == << "m","o","o","n","!" >>
TxtOk == << "o","k" >>
TxtNews == << "g","m"," ","a","l","l" >>

\* n times the character ch
Repeat(ch, n) == [i \in 1..n |-> ch]

TxtAtLimit == Repeat("x", 280)
TxtOverLimit == Repeat("x", 281)
TxtPadded == << " "," ","o","k"," "," "," " >>
TxtFour == << "a","b","c","d" >>
TxtFive == << " ","a","b","c","d","e" >>
TxtOffensive == << "o","f","f","e","n","s","i","v","e" >>
TxtBuyNow == << "B","u","y"," ","n","o","w","!" >>
TxtDisclaimed == << "b","u","y"," ","n","o","w"," " >>
                    \o << "n","o","t"," ","f","i","n","a","n","c","i","a","l" >>
                    \o << " ","a","d","v","i","c","e" >>
TxtMoonScam == << "m","o","o","n"," ","s","c","a","m" >>
TxtShortLink == << "s","c","a","m"," ","h","t","t","p",":","/","/" >>
                    \o << "b","i","t",".","l","y","/","x" >>

(***************************************************************************)
(* app/quota.py                                                            *)
(***************************************************************************)
DAY_SECONDS == 24 * 60 * 60
HOUR_SECONDS == 3600

\* QuotaManager.__init__: self._month_window
_month_window == Config.MONTHLY_WRITE_LIMIT_DAYS * DAY_SECONDS

AuthorIds == { NULL, "u1", "u2" }
AuthorKeys == { "u1", "u2", "unknown" }

\* mutant of AuthorKey: one window shared by all authors
AuthorKey_Shared(author_id) == IF author_id = author_id THEN "unknown" ELSE author_id

\* key = str(author_id) if author_id else "unknown"
AuthorKey(author_id) == IF author_id = NULL THEN "unknown" ELSE author_id

\* mutant of _prune: pops one expired event at most
_prune_PopOne(events, window_seconds) ==
    IF events # << >> /\ Head(events) < now - window_seconds
    THEN Tail(events)
    ELSE events

\* mutant of _prune: drops the event that is exactly window_seconds old too
RECURSIVE _prune_Inclusive(_, _)
_prune_Inclusive(events, window_seconds) ==
    IF events # << >> /\ Head(events) <= now - window_seconds
    THEN _prune_Inclusive(Tail(events), window_seconds)
    ELSE events

\* _prune: popleft while events[0] < now - window_seconds
RECURSIVE _prune(_, _)
_prune(events, window_seconds) ==
    IF events # << >> /\ Head(events) < now - window_seconds
    THEN _prune(Tail(events), window_seconds)
    ELSE events

Max(a, b) == IF a >= b THEN a ELSE b

\* _check_monthly_budget: the status and the monthly deque it leaves
_check_monthly_budget ==
    IF Config.MONTHLY_WRITE_LIMIT <= 0
    THEN [ok |-> TRUE, reason |-> "", monthly |-> monthly_events]
    ELSE LET pruned == _prune(monthly_events, _month_window)
         IN  IF Len(pruned) >= Config.MONTHLY_WRITE_LIMIT
             THEN [ok |-> FALSE, reason |-> "monthly_write_limit_reached",
                   monthly |-> pruned]
             ELSE [ok |-> TRUE, reason |-> "", monthly |-> pruned]

\* can_post: the status and the deques it leaves
can_post ==
    LET m == _check_monthly_budget
    IN  IF ~m.ok
        THEN [ok |-> FALSE, reason |-> m.reason, monthly |-> m.monthly,
              post |-> post_events]
        ELSE LET post_cap == Max(Config.POSTS_PER_DAY, 1)
                 pruned == _prune(post_events, DAY_SECONDS)
             IN  IF Len(pruned) >= post_cap
                 THEN [ok |-> FALSE, reason |-> "post_daily_quota_reached",
                       monthly |-> m.monthly, post |-> pruned]
                 ELSE [ok |-> TRUE, reason |-> "",
                       monthly |-> m.monthly, post |-> pruned]

\* mutant of can_reply: the narrowest window is checked first
can_reply_NarrowestFirst(author_id) ==
    LET m == _check_monthly_budget
        daily_cap == Max(Config.REPLIES_PER_DAY, 1)
        hourly_cap == Max(Config.GLOBAL_REPLIES_PER_HOUR, 1)
        per_user_cap == Max(Config.REPLIES_PER_USER_PER_HOUR, 1)
        key == AuthorKey(author_id)
        daily == _prune(reply_daily_events, DAY_SECONDS)
        hourly == _prune(reply_hour_events, HOUR_SECONDS)
        user_events == _prune(reply_user_hour_events[key], HOUR_SECONDS)
        users == [reply_user_hour_events EXCEPT ![key] = user_events]
        out(ok, reason, d, h, u) ==
            [ok |-> ok, reason |-> reason, monthly |-> m.monthly,
             daily |-> d, hourly |-> h, user |-> u]
    IN  IF ~m.ok
        THEN out(FALSE, m.reason, reply_daily_events, reply_hour_events,
                 reply_user_hour_events)
        ELSE IF Len(user_events) >= per_user_cap
        THEN out(FALSE, "reply_user_hourly_quota_reached", reply_daily_events,
                 reply_hour_events, users)
        ELSE IF Len(hourly) >= hourly_cap
        THEN out(FALSE, "reply_global_hourly_quota_reached",
                 reply_daily_events, hourly, users)
        ELSE IF Len(daily) >= daily_cap
        THEN out(FALSE, "reply_daily_quota_reached", daily, hourly, users)
        ELSE out(TRUE, "", daily, hourly, users)

\* can_reply(author_id): the status and the deques it leaves
can_reply(author_id) ==
    LET m == _check_monthly_budget
        daily_cap == Max(Config.REPLIES_PER_DAY, 1)
        hourly_cap == Max(Config.GLOBAL_REPLIES_PER_HOUR, 1)
        per_user_cap == Max(Config.REPLIES_PER_USER_PER_HOUR, 1)
        key == AuthorKey(author_id)
        daily == _prune(reply_daily_events, DAY_SECONDS)
        hourly == _prune(reply_hour_events, HOUR_SECONDS)
        user_events == _prune(reply_user_hour_events[key], HOUR_SECONDS)
        out(ok, reason, d, h, u) ==
            [ok |-> ok, reason |-> reason, monthly |-> m.monthly,
             daily |-> d, hourly |-> h, user |-> u]
    IN  IF ~m.ok
        THEN out(FALSE, m.reason, reply_daily_events, reply_hour_events,
                 reply_user_hour_events)
        ELSE IF Len(daily) >= daily_cap
        THEN out(FALSE, "reply_daily_quota_reached", daily, reply_hour_events,
                 reply_user_hour_events)
        ELSE IF Len(hourly) >= hourly_cap
        THEN out(FALSE, "reply_global_hourly_quota_reached", daily, hourly,
                 reply_user_hour_events)
        ELSE IF Len(user_events) >= per_user_cap
        THEN out(FALSE, "reply_user_hourly_quota_reached", daily, hourly,
                 [reply_user_hour_events EXCEPT ![key] = user_events])
        ELSE out(TRUE, "", daily, hourly,
                 [reply_user_hour_events EXCEPT ![key] = user_events])

\* mutant of ApplyCanPost: an allowed check reserves its quota event at once
ApplyCanPost_Reserve(q) ==
    /\ post_events' = IF q.ok THEN Append(q.post, now) ELSE q.post
    /\ monthly_events' = IF q.ok THEN Append(q.monthly, now) ELSE q.monthly
    /\ UNCHANGED << reply_daily_events, reply_hour_events,
                    reply_user_hour_events, post_history >>

\* the effect of one can_post() call on the QuotaManager
ApplyCanPost(q) ==
    /\ post_events' = q.post
    /\ monthly_events' = q.monthly
    /\ UNCHANGED << reply_daily_events, reply_hour_events,
                    reply_user_hour_events, post_history >>

\* the effect of one can_reply() call on the QuotaManager
ApplyCanReply(q) ==
    /\ reply_daily_events' = q.daily
    /\ reply_hour_events' = q.hourly
    /\ reply_user_hour_events' = q.user
    /\ monthly_events' = q.monthly
    /\ UNCHANGED << post_events, post_history >>

\* mutant of record_post: the post is counted in the daily reply window too
record_post_CountsReply ==
    LET ts == now
    IN  /\ post_events' = Append(post_events, ts)
        /\ monthly_events' = Append(monthly_events, ts)
        /\ post_history' = Append(post_history, ts)
        /\ reply_daily_events' = Append(reply_daily_events, ts)
        /\ UNCHANGED << reply_hour_events, reply_user_hour_events >>

\* record_post
record_post ==
    LET ts == now
    IN  /\ post_events' = Append(post_events, ts)
        /\ monthly_events' = Append(monthly_events, ts)
        /\ post_history' = Append(post_history, ts)
        /\ UNCHANGED << reply_daily_events, reply_hour_events,
                        reply_user_hour_events >>

\* record_reply(author_id)
record_reply(author_id) ==
    LET ts == now
        key == AuthorKey(author_id)
    IN  /\ reply_daily_events' = Append(reply_daily_events, ts)
        /\ reply_hour_events' = Append(reply_hour_events, ts)
        /\ reply_user_hour_events' =
               [reply_user_hour_events EXCEPT ![key] = Append(@, ts)]
        /\ monthly_events' = Append(monthly_events, ts)
        /\ UNCHANGED << post_events, post_history >>

(***************************************************************************)
(* app/audit_db.py                                                         *)
(***************************************************************************)
DraftStatuses == { "generated", "pending_approval", "queued", "approved",
                   "rejected", "posted", "error" }
Priorities == { "low", "normal", "high" }

\* the characters of a priority value, for the ORDER BY on the TEXT column
PriorityText(priority) ==
    CASE priority = "low" -> << "l","o","w" >>
      [] priority = "normal" -> << "n","o","r","m","a","l" >>
      [] priority = "high" -> << "h","i","g","h" >>

DraftIds == 1..Len(drafts)

\* the review_queue rows of one draft (draft_id is UNIQUE)
RowsOf(draft_id) ==
    { i \in 1..Len(review_queue) : review_queue[i].draft_id = draft_id }

\* the posts rows of one draft
PostsOf(draft_id) == { i \in 1..Len(posts) : posts[i].draft_id = draft_id }

\* log_draft: INSERT INTO drafts; the new row's id is Len(drafts')
log_draft(text) ==
    LET status_val == IF Config.REQUIRE_POST_APPROVAL THEN "pending_approval"
                      ELSE "queued"
    IN  drafts' = Append(drafts,
            [text |-> text, status |-> status_val, safety_passed |-> FALSE,
             safety_flags |-> << >>, posted_tweet_id |-> NULL,
             error_message |-> NULL, reviewed_by |-> NULL])

\* log_safety_check: INSERT INTO safety_checks (draft_id, check_name, passed,
\* details)
log_safety_check(draft_id, check_name, passed, details) ==
    safety_checks' = Append(safety_checks,
        [draft_id |-> draft_id, check_name |-> check_name, passed |-> passed,
         details |-> details])

\* UPDATE drafts SET safety_passed = ?, safety_flags = ? WHERE id = ?
update_safety(draft_id, passed_safety, safety_flags) ==
    drafts' = [drafts EXCEPT ![draft_id].safety_passed = passed_safety,
                             ![draft_id].safety_flags = safety_flags]

\* mutant of queue_for_review: reason and priority bound to the wrong columns
queue_for_review_SwappedColumns(draft_id, reason, priority) ==
    review_queue' =
        IF RowsOf(draft_id) = {}
        THEN Append(review_queue,
                 [draft_id |-> draft_id, reason |-> priority,
                  priority |-> reason, created_at |-> now,
                  reviewed |-> FALSE, reviewer_decision |-> NULL,
                  reviewer_notes |-> NULL])
        ELSE [i \in 1..Len(review_queue) |->
                 IF review_queue[i].draft_id = draft_id
                 THEN [review_queue[i] EXCEPT !.priority = reason]
                 ELSE review_queue[i]]

\* mutant of queue_for_review: a plain INSERT on a table without the UNIQUE
\* constraint
queue_for_review_AlwaysInsert(draft_id, reason, priority) ==
    review_queue' =
        Append(review_queue,
            [draft_id |-> draft_id, reason |-> reason,
             priority |-> priority, created_at |-> now,
             reviewed |-> FALSE, reviewer_decision |-> NULL,
             reviewer_notes |-> NULL])

\* queue_for_review: INSERT ... ON CONFLICT(draft_id) DO UPDATE SET priority
queue_for_review(draft_id, reason, priority) ==
    review_queue' =
        IF RowsOf(draft_id) = {}
        THEN Append(review_queue,
                 [draft_id |-> draft_id, reason |-> reason,
                  priority |-> priority, created_at |-> now,
                  reviewed |-> FALSE, reviewer_decision |-> NULL,
                  reviewer_notes |-> NULL])
        ELSE [i \in 1..Len(review_queue) |->
                 IF review_queue[i].draft_id = draft_id
                 THEN [review_queue[i] EXCEPT !.priority = priority]
                 ELSE review_queue[i]]

\* ORDER BY rq.priority DESC, rq.created_at ASC: may row a come before row b
OrderedBefore(a, b) ==
    \/ TextLess(PriorityText(b.priority), PriorityText(a.priority))
    \/ /\ a.priority = b.priority
       /\ a.created_at <= b.created_at

\* rows the SELECT of get_review_queue keeps (JOIN drafts, WHERE reviewed = 0)
SelectedRows(only_unreviewed) ==
    { i \in 1..Len(review_queue) :
        /\ review_queue[i].draft_id \in DraftIds
        /\ only_unreviewed => ~review_queue[i].reviewed }

\* get_review_queue: every row order the query may return (rows by id)
get_review_queue(only_unreviewed) ==
    LET sel == SelectedRows(only_unreviewed)
        n == Cardinality(sel)
    IN  { L \in [1..n -> sel] :
            /\ \A i, j \in 1..n : i # j => L[i] # L[j]
            /\ \A i \in 1..(n - 1) :
                   OrderedBefore(review_queue[L[i]], review_queue[L[i + 1]]) }

\* the two UPDATEs of approve_for_posting / reject_draft, in one transaction
review_decision(draft_id, reviewer, notes, decision) ==
    /\ drafts' = [d \in 1..Len(drafts) |->
                     IF d = draft_id
                     THEN [drafts[d] EXCEPT !.status = decision,
                                            !.reviewed_by = reviewer]
                     ELSE drafts[d]]
    /\ review_queue' = [i \in 1..Len(review_queue) |->
                     IF review_queue[i].draft_id = draft_id
                     THEN [review_queue[i] EXCEPT
                              !.reviewed = TRUE,
                              !.reviewer_decision = decision,
                              !.reviewer_notes = notes]
                     ELSE review_queue[i]]

approve_for_posting(draft_id, reviewer, notes) ==
    review_decision(draft_id, reviewer, notes, "approved")

reject_draft(draft_id, reviewer, notes) ==
    review_decision(draft_id, reviewer, notes, "rejected")

\* mutant of log_posted_tweet: the INSERT INTO posts is missing
log_posted_tweet_NoInsert(draft_id, tweet_id, text) ==
    /\ drafts' = [d \in 1..Len(drafts) |->
                     IF d = draft_id
                     THEN [drafts[d] EXCEPT !.status = "posted",
                                            !.posted_tweet_id = tweet_id]
                     ELSE drafts[d]]
    /\ posts' = posts

\* log_posted_tweet: UPDATE drafts ... 'posted'; INSERT INTO posts
log_posted_tweet(draft_id, tweet_id, text) ==
    /\ drafts' = [d \in 1..Len(drafts) |->
                     IF d = draft_id
                     THEN [drafts[d] EXCEPT !.status = "posted",
                                            !.posted_tweet_id = tweet_id]
                     ELSE drafts[d]]
    /\ posts' = Append(posts, [draft_id |-> draft_id, tweet_id |-> tweet_id,
                               text |-> text])

\* mutant of update_status: a status of its own for simulated posts
update_status_Simulated(draft_id, status) ==
    drafts' = [drafts EXCEPT ![draft_id].status = "simulated"]

\* UPDATE drafts SET status = ? WHERE id = ?   (DRY_RUN branch of post)
update_status(draft_id, status) ==
    drafts' = [drafts EXCEPT ![draft_id].status = status]

\* UPDATE drafts SET status = 'error', error_message = ? WHERE id = ?
\* the except branch storing the status without the error message
update_error_StatusOnly(draft_id, message) ==
    drafts' = [drafts EXCEPT ![draft_id].status = "error"]

update_error(draft_id, message) ==
    drafts' = [drafts EXCEPT ![draft_id].status = "error",
                             ![draft_id].error_message = message]

(***************************************************************************)
(* app/poster_safe.py: duplicate detection                                 *)
(***************************************************************************)
DupWindow == 20
ThreshPercent == 85

\* blocks a[i..i+k-1] = b[j..j+k-1] of length k >= 1
CommonBlocks(a, b) ==
    { m \in (1..Len(a)) \X (1..Len(b)) \X (1..Len(a)) :
        /\ m[1] + m[3] - 1 <= Len(a)
        /\ m[2] + m[3] - 1 <= Len(b)
        /\ SubSeq(a, m[1], m[1] + m[3] - 1) = SubSeq(b, m[2], m[2] + m[3] - 1) }

\* difflib find_longest_match: longest, then earliest in a, then earliest in b
\* (texts stay under 200 characters, where difflib applies no autojunk)
find_longest_match(a, b) ==
    LET blocks == CommonBlocks(a, b)
    IN  CHOOSE m \in blocks : \A o \in blocks :
            \/ m[3] > o[3]
            \/ m[3] = o[3] /\ m[1] < o[1]
            \/ m[3] = o[3] /\ m[1] = o[1] /\ m[2] <= o[2]

\* sum of the sizes of difflib's get_matching_blocks
RECURSIVE MatchCount(_, _)
MatchCount(a, b) ==
    IF CommonBlocks(a, b) = {} THEN 0
    ELSE LET m == find_longest_match(a, b)
         IN  m[3]
             + MatchCount(SubSeq(a, 1, m[1] - 1), SubSeq(b, 1, m[2] - 1))
             + MatchCount(SubSeq(a, m[1] + m[3], Len(a)),
                          SubSeq(b, m[2] + m[3], Len(b)))

\* SequenceMatcher(None, s1, s2).ratio() >= thresh, with ratio = 2*M/T
RatioAtLeastThresh(s1, s2) ==
    LET T == Len(s1) + Len(s2)
    IN  IF T = 0 THEN TRUE
        ELSE 2 * MatchCount(s1, s2) * 100 >= ThreshPercent * T

\* mutant of RecentPosted: the SELECT without its LIMIT
RECURSIVE RecentPosted_NoLimit(_, _)
RecentPosted_NoLimit(d, window) ==
    IF d = 0 THEN << >>
    ELSE IF drafts[d].status = "posted"
    THEN << drafts[d].text >> \o RecentPosted_NoLimit(d - 1, window)
    ELSE RecentPosted_NoLimit(d - 1, window)

\* SELECT text FROM drafts WHERE status='posted' ORDER BY id DESC LIMIT window
RECURSIVE RecentPosted(_, _)
RecentPosted(d, window) ==
    IF d = 0 \/ window = 0 THEN << >>
    ELSE IF drafts[d].status = "posted"
    THEN << drafts[d].text >> \o RecentPosted(d - 1, window - 1)
    ELSE RecentPosted(d - 1, window)

\* _is_duplicate: (is_dup, matched text)
_is_duplicate(text) ==
    LET rows == RecentPosted(Len(drafts), DupWindow)
        s1 == lower(strip(text))
        hits == { i \in 1..Len(rows) : RatioAtLeastThresh(s1, lower(strip(rows[i]))) }
    IN  IF hits = {} THEN [dup |-> FALSE, matched |-> NULL]
        ELSE [dup |-> TRUE,
              matched |-> rows[CHOOSE i \in hits : \A j \in hits : i <= j]]

(***************************************************************************)
(* app/poster_safe.py: SafePoster.post and SafePoster.reply                *)
(***************************************************************************)
Threads == { "post_job", "mention_job" }

PostTexts == { TxtHello, TxtNews, TxtOk }
ReplyTexts == { TxtHello, TxtOk }
ReplyAuthors == { "u1" }

\* what RateLimitWrapper.call_with_backoff(client.create_tweet, ...) can do:
\* return a response, raise RateLimitException, or raise another exception
Responses == { [data |-> [id |-> "1001"]] }
call_with_backoff ==
    { [raised |-> NULL, resp |-> r] : r \in Responses }
    \cup { [raised |-> e, resp |-> [data |-> [id |-> NULL]]] :
             e \in { "RateLimitException", "Exception" } }

\* _extract_tweet_id(resp): data.get("id"), None when the response has none
_extract_tweet_id(resp) == resp.data.id

\* str(tweet_id)
Str(tweet_id) == IF tweet_id = NULL THEN "None" ELSE tweet_id

NoRun == [draft_id |-> 0, text |-> << >>, force_review |-> FALSE,
          author_id |-> NULL, passed_safety |-> FALSE, tweet_id |-> NULL,
          was_posted |-> FALSE, outcome |-> "none", calls |-> 0,
          records |-> 0]

\* the call of thread p returns (tweet_id, was_posted)
Return(p, outcome, tweet_id, was_posted) ==
    /\ pc' = [pc EXCEPT ![p] = "idle"]
    /\ run' = [run EXCEPT ![p].outcome = outcome,
                          ![p].tweet_id = tweet_id,
                          ![p].was_posted = was_posted]

Goto(p, label) == pc' = [pc EXCEPT ![p] = label]

\* post, step 1: audit_db.log_draft
PostLogDraft(text, force_review) ==
    /\ pc["post_job"] = "idle"
    /\ Len(drafts) < MaxDrafts
    /\ log_draft(text)
    /\ run' = [run EXCEPT !["post_job"] =
                  [NoRun EXCEPT !.draft_id = Len(drafts) + 1, !.text = text,
                                !.force_review = force_review]]
    /\ Goto("post_job", "drafted")
    /\ UNCHANGED << faultVars, Config, conflicts, now, ticks, review_queue, posts, quotaVars >>

\* post / reply, step 2: passes_safety, get_safety_flags, UPDATE drafts
EvaluateSafety(p) ==
    /\ pc[p] = "drafted"
    /\ LET passed_safety == passes_safety(run[p].text)
           safety_flags == IF passed_safety THEN << >>
                           ELSE get_safety_flags(run[p].text)
       IN  /\ update_safety(run[p].draft_id, passed_safety, safety_flags)
           /\ run' = [run EXCEPT ![p].passed_safety = passed_safety]
    /\ Goto(p, "evaluated")
    /\ UNCHANGED << faultVars, Config, conflicts, now, ticks, review_queue, posts, quotaVars >>

\* post, step 3: the safety decision, then quota_manager.can_post()
PostDecide ==
    LET p == "post_job"
        q == can_post
    IN  /\ pc[p] = "evaluated"
        /\ IF ~run[p].passed_safety
           THEN /\ queue_for_review(run[p].draft_id, "safety_check_failed", "normal")
                /\ Return(p, "safety_check_failed", NULL, FALSE)
                /\ UNCHANGED quotaVars
           ELSE IF ~q.ok
           THEN /\ ApplyCanPost(q)
                /\ queue_for_review(run[p].draft_id, q.reason, "low")
                /\ Return(p, "quota_denied", NULL, FALSE)
           ELSE /\ ApplyCanPost(q)
                /\ Goto(p, "checked")
                /\ UNCHANGED << run, review_queue >>
        /\ UNCHANGED << faultVars, Config, conflicts, now, ticks, drafts, posts >>

\* the try block with a rate-limit failure handled like any other exception
Publish_RateLimitAsError(p, res) ==
    /\ res \in call_with_backoff
    /\ IF res.raised = NULL
       THEN /\ run' = [run EXCEPT ![p].tweet_id = _extract_tweet_id(res.resp),
                                  ![p].calls = @ + 1]
            /\ Goto(p, "published")
            /\ UNCHANGED << drafts, review_queue >>
       ELSE /\ update_error(run[p].draft_id, res.raised)
            /\ queue_for_review(run[p].draft_id,
                                IF res.raised = "RateLimitException"
                                THEN "rate_limit_exceeded" ELSE "posting_error",
                                "high")
            /\ pc' = [pc EXCEPT ![p] = "idle"]
            /\ run' = [run EXCEPT ![p].outcome =
                                      IF res.raised = "RateLimitException"
                                      THEN "rate_limit_exceeded"
                                      ELSE "posting_error",
                                  ![p].calls = @ + 1]

\* the try block of post / reply: create_tweet and the two except branches
Publish(p, res) ==
    /\ res \in call_with_backoff
    /\ IF res.raised = NULL
       THEN /\ run' = [run EXCEPT ![p].tweet_id = _extract_tweet_id(res.resp),
                                  ![p].calls = @ + 1]
            /\ Goto(p, "published")
            /\ UNCHANGED << drafts, review_queue >>
       ELSE IF res.raised = "RateLimitException"
       THEN /\ queue_for_review(run[p].draft_id, "rate_limit_exceeded", "high")
            /\ pc' = [pc EXCEPT ![p] = "idle"]
            /\ run' = [run EXCEPT ![p].outcome = "rate_limit_exceeded",
                                  ![p].calls = @ + 1]
            /\ UNCHANGED drafts
       ELSE /\ update_error(run[p].draft_id, res.raised)
            /\ queue_for_review(run[p].draft_id, "posting_error", "high")
            /\ pc' = [pc EXCEPT ![p] = "idle"]
            /\ run' = [run EXCEPT ![p].outcome = "posting_error",
                                  ![p].calls = @ + 1]

\* post, steps 3 to 5 without the duplicate check
PostGate_NoDuplicateCheck(res) ==
    LET p == "post_job"
    IN  /\ pc[p] = "checked"
        /\ IF run[p].force_review
           THEN /\ queue_for_review(run[p].draft_id, "owner_approval_required", "high")
                /\ Return(p, "forced_review", NULL, FALSE)
                /\ UNCHANGED drafts
           ELSE IF Config.DRY_RUN
           THEN /\ update_status(run[p].draft_id, "posted")
                /\ Return(p, "simulated", NULL, FALSE)
                /\ UNCHANGED review_queue
           ELSE Publish(p, res)
        /\ UNCHANGED << faultVars, Config, conflicts, now, ticks, posts, quotaVars >>

\* post, step 3 continued and steps 4, 5: force_review, _is_duplicate,
\* DRY_RUN, create_tweet
PostGate(res) ==
    LET p == "post_job"
    IN  /\ pc[p] = "checked"
        /\ IF run[p].force_review
           THEN /\ queue_for_review(run[p].draft_id, "owner_approval_required", "high")
                /\ Return(p, "forced_review", NULL, FALSE)
                /\ UNCHANGED drafts
           ELSE IF _is_duplicate(run[p].text).dup
           THEN /\ queue_for_review(run[p].draft_id, "duplicate_recent", "low")
                /\ Return(p, "duplicate_recent", NULL, FALSE)
                /\ UNCHANGED drafts
           ELSE IF Config.DRY_RUN
           THEN /\ update_status(run[p].draft_id, "posted")
                /\ Return(p, "simulated", NULL, FALSE)
                /\ UNCHANGED review_queue
           ELSE Publish(p, res)
        /\ UNCHANGED << faultVars, Config, conflicts, now, ticks, posts, quotaVars >>

\* post / reply: audit_db.log_posted_tweet(draft_id, str(tweet_id), text)
LogPosted(p) ==
    /\ pc[p] = "published"
    /\ log_posted_tweet(run[p].draft_id, Str(run[p].tweet_id), run[p].text)
    /\ Goto(p, "logged")
    /\ UNCHANGED << faultVars, Config, conflicts, now, ticks, review_queue, quotaVars, run >>

\* post: quota_manager.record_post(); return str(tweet_id), True
PostRecord ==
    LET p == "post_job"
    IN  /\ pc[p] = "logged"
        /\ record_post
        /\ pc' = [pc EXCEPT ![p] = "idle"]
        /\ run' = [run EXCEPT ![p].outcome = "posted",
                              ![p].tweet_id = Str(run[p].tweet_id),
                              ![p].was_posted = TRUE,
                              ![p].records = @ + 1]
        /\ UNCHANGED << faultVars, Config, conflicts, now, ticks, storeVars >>

\* reply, step 1: audit_db.log_draft
ReplyLogDraft(text, force_review, author_id) ==
    /\ pc["mention_job"] = "idle"
    /\ Len(drafts) < MaxDrafts
    /\ log_draft(text)
    /\ run' = [run EXCEPT !["mention_job"] =
                  [NoRun EXCEPT !.draft_id = Len(drafts) + 1, !.text = text,
                                !.force_review = force_review,
                                !.author_id = author_id]]
    /\ Goto("mention_job", "drafted")
    /\ UNCHANGED << faultVars, Config, conflicts, now, ticks, review_queue, posts, quotaVars >>

\* reply, step 3 with a quota denial that is queued for review as post does
ReplyDecide_QueueOnDenial ==
    LET p == "mention_job"
        q == can_reply(run[p].author_id)
    IN  /\ pc[p] = "evaluated"
        /\ IF ~run[p].passed_safety
           THEN /\ queue_for_review(run[p].draft_id, "safety_check_failed", "normal")
                /\ Return(p, "safety_check_failed", NULL, FALSE)
                /\ UNCHANGED quotaVars
           ELSE IF run[p].force_review
           THEN /\ queue_for_review(run[p].draft_id, "forced_review", "normal")
                /\ Return(p, "forced_review", NULL, FALSE)
                /\ UNCHANGED quotaVars
           ELSE IF ~q.ok
           THEN /\ ApplyCanReply(q)
                /\ queue_for_review(run[p].draft_id, q.reason, "low")
                /\ Return(p, "quota_denied", NULL, FALSE)
           ELSE /\ ApplyCanReply(q)
                /\ Goto(p, "checked")
                /\ UNCHANGED << run, review_queue >>
        /\ UNCHANGED << faultVars, Config, conflicts, now, ticks, drafts, posts >>

\* reply, step 3: the safety decision, force_review, quota_manager.can_reply()
ReplyDecide ==
    LET p == "mention_job"
        q == can_reply(run[p].author_id)
    IN  /\ pc[p] = "evaluated"
        /\ IF ~run[p].passed_safety
           THEN /\ queue_for_review(run[p].draft_id, "safety_check_failed", "normal")
                /\ Return(p, "safety_check_failed", NULL, FALSE)
                /\ UNCHANGED quotaVars
           ELSE IF run[p].force_review
           THEN /\ queue_for_review(run[p].draft_id, "forced_review", "normal")
                /\ Return(p, "forced_review", NULL, FALSE)
                /\ UNCHANGED quotaVars
           ELSE IF ~q.ok
           THEN /\ ApplyCanReply(q)
                /\ Return(p, "quota_denied", NULL, FALSE)
                /\ UNCHANGED review_queue
           ELSE /\ ApplyCanReply(q)
                /\ Goto(p, "checked")
                /\ UNCHANGED << run, review_queue >>
        /\ UNCHANGED << faultVars, Config, conflicts, now, ticks, drafts, posts >>

\* reply, steps 4 and 5: DRY_RUN, create_tweet
ReplyGate(res) ==
    LET p == "mention_job"
    IN  /\ pc[p] = "checked"
        /\ IF Config.DRY_RUN
           THEN /\ Return(p, "simulated", NULL, FALSE)
                /\ UNCHANGED << drafts, review_queue >>
           ELSE Publish(p, res)
        /\ UNCHANGED << faultVars, Config, conflicts, now, ticks, posts, quotaVars >>

\* reply: quota_manager.record_reply(author_id); return str(tweet_id), True
ReplyRecord ==
    LET p == "mention_job"
    IN  /\ pc[p] = "logged"
        /\ record_reply(run[p].author_id)
        /\ pc' = [pc EXCEPT ![p] = "idle"]
        /\ run' = [run EXCEPT ![p].outcome = "posted",
                              ![p].tweet_id = Str(run[p].tweet_id),
                              ![p].was_posted = TRUE,
                              ![p].records = @ + 1]
        /\ UNCHANGED << faultVars, Config, conflicts, now, ticks, storeVars >>

(***************************************************************************)
(* app/audit_db.py: _with_retry, _write and the SQLite connections, one    *)
(* statement at a time.  A connection's statements are applied to its own  *)
(* view and reach the tables at commit; closing without commit rolls back. *)
(***************************************************************************)
max_retries == 6
\* base_delay = 0.05 s, in milliseconds
base_delay == 50

\* AuditDB methods that go through _write
WriteOps == { "log_draft", "queue_for_review", "approve_for_posting",
              "reject_draft", "log_posted_tweet" }

\* UPDATEs SafePoster runs on a connection from audit_db._get_connection()
RawOps == { "update_safety", "update_status", "update_error" }

\* number of statements of each handler
Statements(op) ==
    IF op \in { "approve_for_posting", "reject_draft", "log_posted_tweet" }
    THEN 2 ELSE 1

\* the tables as a connection sees them
Tables == [drafts |-> drafts, review_queue |-> review_queue, posts |-> posts]
NoTables == [drafts |-> << >>, review_queue |-> << >>, posts |-> << >>]

NoCall == [op |-> "none", draft_id |-> 0, attempt |-> 0, at |-> "idle",
           stmts |-> 0, slept |-> << >>, conn |-> NoTables,
           result |-> "none", returned |-> 0]

\* arguments the callers pass in this model
WriteText == TxtHello
WriteTweetId == "1001"
WriteReviewer == "cli_user"
WriteNotes == "Approved via CLI"
WriteReason == "safety_check_failed"
WritePriority == "normal"

\* status and reviewer_decision written by approve_for_posting / reject_draft
Decision(op) == IF op = "approve_for_posting" THEN "approved" ELSE "rejected"

\* cursor.execute of statement k of the handler (or of the raw UPDATE) of op
\* for draft draft_id, on the connection's view db
Execute(op, k, draft_id, db) ==
    CASE op = "log_draft" ->
           [db EXCEPT !.drafts = Append(@,
               [text |-> WriteText,
                status |-> IF Config.REQUIRE_POST_APPROVAL
                           THEN "pending_approval" ELSE "queued",
                safety_passed |-> FALSE, safety_flags |-> << >>,
                posted_tweet_id |-> NULL, error_message |-> NULL,
                reviewed_by |-> NULL])]
      [] op = "queue_for_review" ->
           [db EXCEPT !.review_queue =
               IF \E i \in 1..Len(@) : @[i].draft_id = draft_id
               THEN [i \in 1..Len(@) |->
                        IF @[i].draft_id = draft_id
                        THEN [@[i] EXCEPT !.priority = WritePriority]
                        ELSE @[i]]
               ELSE Append(@, [draft_id |-> draft_id, reason |-> WriteReason,
                               priority |-> WritePriority, created_at |-> now,
                               reviewed |-> FALSE, reviewer_decision |-> NULL,
                               reviewer_notes |-> NULL])]
      [] op \in { "approve_for_posting", "reject_draft" } /\ k = 1 ->
           [db EXCEPT !.drafts[draft_id].status = Decision(op),
                      !.drafts[draft_id].reviewed_by = WriteReviewer]
      [] op \in { "approve_for_posting", "reject_draft" } /\ k = 2 ->
           [db EXCEPT !.review_queue =
               [i \in 1..Len(@) |->
                   IF @[i].draft_id = draft_id
                   THEN [@[i] EXCEPT !.reviewed = TRUE,
                                     !.reviewer_decision = Decision(op),
                                     !.reviewer_notes = WriteNotes]
                   ELSE @[i]]]
      [] op = "log_posted_tweet" /\ k = 1 ->
           [db EXCEPT !.drafts[draft_id].status = "posted",
                      !.drafts[draft_id].posted_tweet_id = WriteTweetId]
      [] op = "log_posted_tweet" /\ k = 2 ->
           [db EXCEPT !.posts = Append(@,
               [draft_id |-> draft_id, tweet_id |-> WriteTweetId,
                text |-> db.drafts[draft_id].text])]
      [] op = "update_safety" ->
           [db EXCEPT !.drafts[draft_id].safety_passed =
                          passes_safety(db.drafts[draft_id].text),
                      !.drafts[draft_id].safety_flags =
                          IF passes_safety(db.drafts[draft_id].text)
                          THEN << >>
                          ELSE get_safety_flags(db.drafts[draft_id].text)]
      [] op = "update_status" ->
           [db EXCEPT !.drafts[draft_id].status = "posted"]
      [] op = "update_error" ->
           [db EXCEPT !.drafts[draft_id].status = "error",
                      !.drafts[draft_id].error_message = "Exception"]

\* conn.commit(): the connection's view becomes the tables
Committed(db) ==
    /\ drafts' = db.drafts
    /\ review_queue' = db.review_queue
    /\ posts' = db.posts

\* what the handler returns: log_draft returns cur.lastrowid, the others None
HandlerResult(op, db) == IF op = "log_draft" THEN Len(db.drafts) ELSE 0

\* what the write model leaves alone
WriteFrame ==
    UNCHANGED << Config, now, ticks, conflicts, quotaVars, threadVars,
                 propagated, checked, sched, auditVars >>

\* calls of op that have started and not yet returned
Pending(op) == { q \in Threads : call[q].op = op /\ call[q].at # "idle" }

\* thread p calls an AuditDB method: _write(handler) enters _with_retry(run)
WriteCall(p, op, draft_id) ==
    /\ call[p].at = "idle"
    /\ op \in WriteOps
    /\ IF op = "log_draft"
       THEN /\ draft_id = 0
            /\ Len(drafts) + Cardinality(Pending(op)) < MaxWriteDrafts
       ELSE draft_id \in DraftIds
    /\ op = "log_posted_tweet" =>
           Len(posts) + Cardinality(Pending(op)) < MaxWritePosts
    /\ call' = [call EXCEPT ![p] =
                  [NoCall EXCEPT !.op = op, !.draft_id = draft_id,
                                 !.at = "loop"]]
    /\ UNCHANGED << write_lock, db_lock, storeVars >>
    /\ WriteFrame

\* fn(): with _write_lock: conn = _connect(self.db_path)
Attempt(p) ==
    /\ call[p].at = "loop"
    /\ write_lock = NULL
    /\ write_lock' = p
    /\ call' = [call EXCEPT ![p].at = "handler", ![p].attempt = @ + 1,
                            ![p].stmts = 0, ![p].conn = NoTables]
    /\ UNCHANGED << db_lock, storeVars >>
    /\ WriteFrame

\* handler(conn) with a connection in autocommit mode: every statement
\* reaches the tables at once
HandlerStep_Autocommit(p) ==
    LET c == call[p]
        db == Execute(c.op, c.stmts + 1, c.draft_id, Tables)
    IN  /\ c.at = "handler"
        /\ c.stmts < Statements(c.op)
        /\ db_lock \in { NULL, p }
        /\ db_lock' = p
        /\ call' = [call EXCEPT ![p].stmts = @ + 1, ![p].conn = db]
        /\ Committed(db)
        /\ UNCHANGED write_lock
        /\ WriteFrame

\* handler(conn): the next cur.execute; the first write statement takes
\* SQLite's write lock, the statement changes the connection's view only
HandlerStep(p) ==
    LET c == call[p]
    IN  /\ c.at = "handler"
        /\ c.stmts < Statements(c.op)
        /\ db_lock \in { NULL, p }
        /\ db_lock' = p
        /\ call' = [call EXCEPT
                      ![p].stmts = @ + 1,
                      ![p].conn = Execute(c.op, c.stmts + 1, c.draft_id,
                                          IF c.stmts = 0 THEN Tables ELSE c.conn)]
        /\ UNCHANGED << write_lock, storeVars >>
        /\ WriteFrame

\* result = handler(conn) returned; conn.commit(); conn.close(); the lock is
\* released and _with_retry returns the result
Commit(p) ==
    LET c == call[p]
    IN  /\ c.at = "handler"
        /\ c.stmts = Statements(c.op)
        /\ Committed(c.conn)
        /\ db_lock' = NULL
        /\ write_lock' = NULL
        /\ call' = [call EXCEPT ![p] =
                      [NoCall EXCEPT !.result = "ok",
                                     !.returned = HandlerResult(c.op, c.conn)]]
        /\ WriteFrame

Pow2(n) == 2 ^ n

\* the retry sleeping base_delay every time
Locked_ConstantDelay(p) ==
    LET c == call[p]
    IN  /\ c.at = "handler"
        /\ c.stmts = 0
        /\ db_lock \notin { NULL, p }
        /\ write_lock' = NULL
        /\ call' = IF c.attempt <= max_retries
                   THEN [call EXCEPT ![p].at = "loop",
                                     ![p].slept = Append(@, base_delay)]
                   ELSE [call EXCEPT ![p] =
                            [NoCall EXCEPT !.result = "database is locked"]]
        /\ UNCHANGED << db_lock, storeVars >>
        /\ WriteFrame

\* the retry sleeping inside the with block, _write_lock still held
Locked_KeepsLock(p) ==
    LET c == call[p]
    IN  /\ c.at = "handler"
        /\ c.stmts = 0
        /\ db_lock \notin { NULL, p }
        /\ call' = IF c.attempt <= max_retries
                   THEN [call EXCEPT
                           ![p].at = "loop",
                           ![p].slept = Append(@, base_delay * Pow2(c.attempt - 1))]
                   ELSE [call EXCEPT ![p] =
                            [NoCall EXCEPT !.result = "database is locked"]]
        /\ UNCHANGED << write_lock, db_lock, storeVars >>
        /\ WriteFrame

\* the statement meets another connection's write lock until busy_timeout:
\* sqlite3.OperationalError('database is locked') leaves run(); inside the
\* loop _with_retry sleeps base_delay * 2 ** attempt and tries again, the
\* fn() after the loop lets the exception through
Locked(p) ==
    LET c == call[p]
    IN  /\ c.at = "handler"
        /\ c.stmts = 0
        /\ db_lock \notin { NULL, p }
        /\ write_lock' = NULL
        /\ call' = IF c.attempt <= max_retries
                   THEN [call EXCEPT
                           ![p].at = "loop",
                           ![p].slept = Append(@, base_delay * Pow2(c.attempt - 1))]
                   ELSE [call EXCEPT ![p] =
                            [NoCall EXCEPT !.result = "database is locked"]]
        /\ UNCHANGED << db_lock, storeVars >>
        /\ WriteFrame

\* the exception path committing what the handler had executed
HandlerFault_NoRollback(p) ==
    LET c == call[p]
    IN  /\ c.at = "handler"
        /\ c.stmts < Statements(c.op)
        /\ Committed(IF c.stmts = 0 THEN Tables ELSE c.conn)
        /\ db_lock' = IF db_lock = p THEN NULL ELSE db_lock
        /\ write_lock' = NULL
        /\ call' = [call EXCEPT ![p] = [NoCall EXCEPT !.result = "Exception"]]
        /\ WriteFrame

\* _with_retry treating every exception like lock contention
HandlerFault_Retry(p) ==
    LET c == call[p]
    IN  /\ c.at = "handler"
        /\ c.stmts < Statements(c.op)
        /\ db_lock' = IF db_lock = p THEN NULL ELSE db_lock
        /\ write_lock' = NULL
        /\ call' = IF c.attempt <= max_retries
                   THEN [call EXCEPT
                           ![p].at = "loop",
                           ![p].slept = Append(@, base_delay * Pow2(c.attempt - 1))]
                   ELSE [call EXCEPT ![p] = [NoCall EXCEPT !.result = "Exception"]]
        /\ UNCHANGED storeVars
        /\ WriteFrame

\* a statement raises anything else: finally conn.close() without commit
\* (rollback), the lock is released, _with_retry re-raises at once
HandlerFault(p) ==
    LET c == call[p]
    IN  /\ c.at = "handler"
        /\ c.stmts < Statements(c.op)
        /\ db_lock' = IF db_lock = p THEN NULL ELSE db_lock
        /\ write_lock' = NULL
        /\ call' = [call EXCEPT ![p] = [NoCall EXCEPT !.result = "Exception"]]
        /\ UNCHANGED storeVars
        /\ WriteFrame

\* SafePoster: conn_audit = audit_db._get_connection(); cursor.execute(UPDATE)
RawExecute(p, op, draft_id) ==
    /\ call[p].at = "idle"
    /\ op \in RawOps
    /\ draft_id \in DraftIds
    /\ db_lock = NULL
    /\ db_lock' = p
    /\ call' = [call EXCEPT ![p] =
                  [NoCall EXCEPT !.op = op, !.draft_id = draft_id,
                                 !.at = "raw", !.stmts = 1,
                                 !.conn = Execute(op, 1, draft_id, Tables)]]
    /\ UNCHANGED << write_lock, storeVars >>
    /\ WriteFrame

\* SafePoster's UPDATE meets another connection's write lock until
\* busy_timeout: OperationalError leaves post() / reply()
RawLocked(p, op, draft_id) ==
    /\ call[p].at = "idle"
    /\ op \in RawOps
    /\ draft_id \in DraftIds
    /\ db_lock \notin { NULL, p }
    /\ call' = [call EXCEPT ![p] =
                  [NoCall EXCEPT !.result = "database is locked"]]
    /\ UNCHANGED << write_lock, db_lock, storeVars >>
    /\ WriteFrame

\* SafePoster: conn_audit.commit(); conn_audit.close()
RawCommit(p) ==
    /\ call[p].at = "raw"
    /\ Committed(call[p].conn)
    /\ db_lock' = NULL
    /\ call' = [call EXCEPT ![p] = [NoCall EXCEPT !.result = "ok"]]
    /\ UNCHANGED write_lock
    /\ WriteFrame

(***************************************************************************)
(* The review workflow (app/review_cli.py) and the clock.                  *)
(***************************************************************************)
\* review_cli approve <id>
Approve(draft_id) ==
    /\ draft_id \in DraftIds
    /\ approve_for_posting(draft_id, "cli_user", "Approved via CLI")
    /\ UNCHANGED << faultVars, Config, conflicts, now, ticks, posts, quotaVars, threadVars >>

\* review_cli reject <id>
Reject(draft_id) ==
    /\ draft_id \in DraftIds
    /\ reject_draft(draft_id, "cli_user", "")
    /\ UNCHANGED << faultVars, Config, conflicts, now, ticks, posts, quotaVars, threadVars >>

PipelineTimeSteps == { HOUR_SECONDS + 1 }

\* wall-clock time passes
Tick(dt) ==
    /\ ticks < MaxPipelineTicks
    /\ now' = now + dt
    /\ ticks' = ticks + 1
    /\ UNCHANGED << faultVars, Config, conflicts, storeVars, quotaVars, threadVars >>

(***************************************************************************)
(* app/scheduler.py: BotScheduler.start adds post_job and mention_job as   *)
(* interval jobs of a BackgroundScheduler.  The scheduler's handling of a  *)
(* due job (run times, coalescing, the running-instance count, misfires)   *)
(* is the library's; the values it works with are the ones start() passes. *)
(* Jitter is taken as 0.                                                   *)
(***************************************************************************)
\* mutant of max_instances: two executions of a job may run at once
max_instances_Two == 1 + 1

\* add_job(..., max_instances=1, coalesce=True, misfire_grace_time=300)
max_instances == 1

coalesce == TRUE

misfire_grace_time == 300

MINUTE_SECONDS == 60

\* a job not added yet
NoJob == [added |-> FALSE, next_run_time |-> 0, instances |-> 0,
          last |-> "none", runs |-> 0]

\* the interval trigger of job j, in seconds
interval(j) ==
    IF j = "post_job" THEN Config.POST_INTERVAL_HOURS * HOUR_SECONDS
    ELSE Config.MENTION_POLL_MINUTES * MINUTE_SECONDS

SchedFrame ==
    UNCHANGED << Config, now, ticks, conflicts, storeVars, quotaVars,
                 threadVars, writeVars, propagated, checked, auditVars >>

\* BotScheduler.start: both add_job calls and scheduler.start()
Start ==
    /\ \A j \in Threads : ~sched[j].added
    /\ sched' = [j \in Threads |->
                    [NoJob EXCEPT !.added = TRUE,
                                  !.next_run_time = now + interval(j)]]
    /\ SchedFrame

\* the fire times of job j that are due at  now
DueRuns(j) == ((now - sched[j].next_run_time) \div interval(j)) + 1

\* the scheduler wakes up with job j due: the due run times are coalesced
\* into the latest one, the job is submitted unless max_instances of it are
\* running, and a run later than misfire_grace_time is not executed
Process(j) ==
    /\ sched[j].added
    /\ sched[j].next_run_time <= now
    /\ LET n == DueRuns(j)
           runs == IF coalesce THEN 1 ELSE n
           run_time == sched[j].next_run_time + (n - 1) * interval(j)
           next == sched[j].next_run_time + n * interval(j)
       IN  sched' = [sched EXCEPT ![j] =
               IF sched[j].instances >= max_instances
               THEN [@ EXCEPT !.last = "skipped", !.next_run_time = next]
               ELSE IF now - run_time > misfire_grace_time
               THEN [@ EXCEPT !.last = "missed", !.next_run_time = next]
               ELSE [@ EXCEPT !.last = "submitted", !.runs = runs,
                              !.instances = @ + 1, !.next_run_time = next]]
    /\ SchedFrame

\* an execution of job j returns
Finish(j) ==
    /\ sched[j].instances > 0
    /\ sched' = [sched EXCEPT ![j].instances = @ - 1]
    /\ SchedFrame

(***************************************************************************)
(* The pipeline: both job threads, the reviewer and the clock.             *)
(***************************************************************************)
PipelineConfigs ==
    [ DRY_RUN : BOOLEAN, REQUIRE_POST_APPROVAL : BOOLEAN,
      MONTHLY_WRITE_LIMIT : { 0, 1 }, MONTHLY_WRITE_LIMIT_DAYS : { 2 },
      POSTS_PER_DAY : { 1 }, REPLIES_PER_DAY : { 2 },
      GLOBAL_REPLIES_PER_HOUR : { 1 }, REPLIES_PER_USER_PER_HOUR : { 1 } ]

InitState ==
    /\ now = 0
    /\ ticks = 0
    /\ drafts = << >>
    /\ review_queue = << >>
    /\ posts = << >>
    /\ post_events = << >>
    /\ reply_daily_events = << >>
    /\ reply_hour_events = << >>
    /\ reply_user_hour_events = [k \in AuthorKeys |-> << >>]
    /\ monthly_events = << >>
    /\ pc = [p \in Threads |-> "idle"]
    /\ run = [p \in Threads |-> NoRun]
    /\ post_history = << >>
    /\ conflicts = 0
    /\ write_lock = NULL
    /\ db_lock = NULL
    /\ call = [p \in Threads |-> NoCall]
    /\ propagated = [p \in Threads |-> NULL]
    /\ checked = NoCheck
    /\ sched = [j \in Threads |-> NoJob]
    /\ safety_checks = << >>
    /\ context = << >>
    /\ mention_entries = << >>

Init ==
    /\ Config \in PipelineConfigs
    /\ InitState

Next ==
    \/ \E text \in PostTexts, force_review \in BOOLEAN :
           PostLogDraft(text, force_review)
    \/ \E p \in Threads : EvaluateSafety(p)
    \/ PostDecide
    \/ \E res \in call_with_backoff : PostGate(res)
    \/ \E p \in Threads : LogPosted(p)
    \/ PostRecord
    \/ \E text \in ReplyTexts, force_review \in BOOLEAN, author_id \in ReplyAuthors :
           ReplyLogDraft(text, force_review, author_id)
    \/ ReplyDecide
    \/ \E res \in call_with_backoff : ReplyGate(res)
    \/ ReplyRecord
    \/ \E d \in DraftIds : Approve(d)
    \/ \E d \in DraftIds : Reject(d)
    \/ \E dt \in PipelineTimeSteps : Tick(dt)

Spec == Init /\ [][Next]_vars

(***************************************************************************)
(* The audit store called directly (review API, CLI, any in-process        *)
(* caller): log_draft, queue_for_review, approve, reject.                  *)
(***************************************************************************)
Reasons == { "safety_check_failed", "posting_error" }
StoreTexts == { TxtHello }
StoreTimeSteps == { 1 }

StoreConfigs ==
    [ DRY_RUN : { TRUE }, REQUIRE_POST_APPROVAL : { FALSE },
      MONTHLY_WRITE_LIMIT : { 0 }, MONTHLY_WRITE_LIMIT_DAYS : { 30 },
      POSTS_PER_DAY : { 1 }, REPLIES_PER_DAY : { 1 },
      GLOBAL_REPLIES_PER_HOUR : { 1 }, REPLIES_PER_USER_PER_HOUR : { 1 } ]

\* audit_db.log_draft(text)
LogDraft(text) ==
    /\ Len(drafts) < MaxStoreDrafts
    /\ log_draft(text)
    /\ UNCHANGED << faultVars, Config, conflicts, now, ticks, review_queue, posts,
                    quotaVars, threadVars >>

\* audit_db.queue_for_review(draft_id, reason, priority)
QueueForReview(draft_id, reason, priority) ==
    /\ RowsOf(draft_id) # {} => conflicts < MaxConflicts
    /\ queue_for_review(draft_id, reason, priority)
    /\ conflicts' = IF RowsOf(draft_id) # {} THEN conflicts + 1 ELSE conflicts
    /\ UNCHANGED << faultVars, Config, now, ticks, drafts, posts, quotaVars, threadVars >>

\* wall-clock time passes (store and quota specifications)
ClockTick(dt, limit) ==
    /\ ticks < limit
    /\ now' = now + dt
    /\ ticks' = ticks + 1
    /\ UNCHANGED << faultVars, Config, conflicts, storeVars, quotaVars, threadVars >>

InitStore ==
    /\ Config \in StoreConfigs
    /\ InitState

NextStore ==
    \/ \E text \in StoreTexts : LogDraft(text)
    \/ \E d \in DraftIds, reason \in Reasons, priority \in Priorities :
           QueueForReview(d, reason, priority)
    \/ \E d \in DraftIds : Approve(d)
    \/ \E d \in DraftIds : Reject(d)
    \/ \E dt \in StoreTimeSteps : ClockTick(dt, MaxStoreTicks)

SpecStore == InitStore /\ [][NextStore]_vars

(***************************************************************************)
(* The audit store under concurrent in-process callers: both job threads   *)
(* call the AuditDB methods and SafePoster's own UPDATEs, statement by     *)
(* statement, with lock contention and failing statements.                 *)
(***************************************************************************)
WriteConfigs ==
    [ DRY_RUN : { FALSE }, REQUIRE_POST_APPROVAL : { FALSE },
      MONTHLY_WRITE_LIMIT : { 0 }, MONTHLY_WRITE_LIMIT_DAYS : { 30 },
      POSTS_PER_DAY : { 1 }, REPLIES_PER_DAY : { 1 },
      GLOBAL_REPLIES_PER_HOUR : { 1 }, REPLIES_PER_USER_PER_HOUR : { 1 } ]

InitWrite ==
    /\ Config \in WriteConfigs
    /\ InitState

NextWrite ==
    \/ \E p \in Threads, op \in WriteOps, d \in 0..MaxWriteDrafts :
           WriteCall(p, op, d)
    \/ \E p \in Threads : Attempt(p)
    \/ \E p \in Threads : HandlerStep(p)
    \/ \E p \in Threads : Commit(p)
    \/ \E p \in Threads : Locked(p)
    \/ \E p \in Threads : HandlerFault(p)
    \/ \E p \in Threads, op \in RawOps, d \in 1..MaxWriteDrafts :
           RawExecute(p, op, d)
    \/ \E p \in Threads, op \in RawOps, d \in 1..MaxWriteDrafts :
           RawLocked(p, op, d)
    \/ \E p \in Threads : RawCommit(p)

SpecWrite == InitWrite /\ [][NextWrite]_vars

(***************************************************************************)
(* The jobs with failing store writes: post_job calls SafePoster.post with *)
(* no exception handler of its own (scheduler.py:63-80), mention_job wraps *)
(* its body in try / except Exception (scheduler.py:84-174).               *)
(***************************************************************************)
\* the UPDATE of the safety result (poster_safe.py:132-139, 242-249) raises
\* sqlite3.OperationalError: the statement is outside every try block of
\* post() / reply(), so the exception leaves the call; it leaves post_job
\* too, and is logged by mention_job's except clause
SafetyUpdateFails(p) ==
    /\ pc[p] = "drafted"
    /\ pc' = [pc EXCEPT ![p] = "idle"]
    /\ run' = [run EXCEPT ![p].outcome = "raised"]
    /\ propagated' = IF p = "post_job"
                     THEN [propagated EXCEPT ![p] = "OperationalError"]
                     ELSE propagated
    /\ UNCHANGED << writeVars, checked, sched, auditVars, Config, conflicts, now, ticks,
                    storeVars, quotaVars >>

\* mutant of _is_duplicate_except: an unreadable store counts as a duplicate
_is_duplicate_except_FailClosed == [dup |-> TRUE, matched |-> NULL]

\* _is_duplicate when the connection or the SELECT raises: the except
\* Exception branch returns (False, 0.0, None)
_is_duplicate_except == [dup |-> FALSE, matched |-> NULL]

\* post, step 3 continued: _is_duplicate is called (force_review is off) and
\* its connection or SELECT raises
DuplicateReadFails ==
    LET p == "post_job"
    IN  /\ pc[p] = "checked"
        /\ ~run[p].force_review
        /\ Goto(p, "unreadable")
        /\ UNCHANGED << faultVars, Config, conflicts, now, ticks, storeVars,
                        quotaVars, run >>

\* post, steps 3 to 5 on the result of the _is_duplicate call that could not
\* read the store
PostGateReadFails(res) ==
    LET p == "post_job"
    IN  /\ pc[p] = "unreadable"
        /\ IF _is_duplicate_except.dup
           THEN /\ queue_for_review(run[p].draft_id, "duplicate_recent", "low")
                /\ Return(p, "duplicate_recent", NULL, FALSE)
                /\ UNCHANGED drafts
           ELSE IF Config.DRY_RUN
           THEN /\ update_status(run[p].draft_id, "posted")
                /\ Return(p, "simulated", NULL, FALSE)
                /\ UNCHANGED review_queue
           ELSE Publish(p, res)
        /\ UNCHANGED << faultVars, Config, conflicts, now, ticks, posts,
                        quotaVars >>

\* log_posted_tweet raises inside the try block after create_tweet returned:
\* the except Exception branch stores the error and queues the draft
LogPostedFails(p) ==
    /\ pc[p] = "published"
    /\ update_error(run[p].draft_id, "OperationalError")
    /\ queue_for_review(run[p].draft_id, "posting_error", "high")
    /\ pc' = [pc EXCEPT ![p] = "idle"]
    /\ run' = [run EXCEPT ![p].outcome = "posting_error",
                          ![p].tweet_id = NULL]
    /\ UNCHANGED << faultVars, Config, conflicts, now, ticks, posts,
                    quotaVars >>

JobConfigs ==
    [ DRY_RUN : { FALSE }, REQUIRE_POST_APPROVAL : { FALSE },
      MONTHLY_WRITE_LIMIT : { 0 }, MONTHLY_WRITE_LIMIT_DAYS : { 30 },
      POSTS_PER_DAY : { 1 }, REPLIES_PER_DAY : { 2 },
      GLOBAL_REPLIES_PER_HOUR : { 1 }, REPLIES_PER_USER_PER_HOUR : { 1 } ]

InitJobs ==
    /\ Config \in JobConfigs
    /\ InitState

NextJobs ==
    \/ \E text \in PostTexts, force_review \in BOOLEAN :
           PostLogDraft(text, force_review)
    \/ \E p \in Threads : EvaluateSafety(p)
    \/ \E p \in Threads : SafetyUpdateFails(p)
    \/ PostDecide
    \/ \E res \in call_with_backoff : PostGate(res)
    \/ DuplicateReadFails
    \/ \E res \in call_with_backoff : PostGateReadFails(res)
    \/ \E p \in Threads : LogPosted(p)
    \/ \E p \in Threads : LogPostedFails(p)
    \/ PostRecord
    \/ \E text \in ReplyTexts, force_review \in BOOLEAN, author_id \in ReplyAuthors :
           ReplyLogDraft(text, force_review, author_id)
    \/ ReplyDecide
    \/ \E res \in call_with_backoff : ReplyGate(res)
    \/ ReplyRecord

SpecJobs == InitJobs /\ [][NextJobs]_vars

(***************************************************************************)
(* The QuotaManager called directly.                                       *)
(***************************************************************************)
QuotaTimeSteps == { 1, HOUR_SECONDS, DAY_SECONDS }
QuotaAuthors == { NULL, "u1" }

QuotaConfigs ==
    [ DRY_RUN : { TRUE }, REQUIRE_POST_APPROVAL : { FALSE },
      MONTHLY_WRITE_LIMIT : { 0, 3 }, MONTHLY_WRITE_LIMIT_DAYS : { 2 },
      POSTS_PER_DAY : { 1, 2 }, REPLIES_PER_DAY : { 2 },
      GLOBAL_REPLIES_PER_HOUR : { 2 }, REPLIES_PER_USER_PER_HOUR : { 1 } ]

\* quota_manager.can_post()
CanPost ==
    /\ ApplyCanPost(can_post)
    /\ UNCHANGED << faultVars, Config, conflicts, now, ticks, storeVars, threadVars >>

\* quota_manager.record_post()
RecordPost ==
    /\ Len(post_history) < MaxEvents
    /\ record_post
    /\ UNCHANGED << faultVars, Config, conflicts, now, ticks, storeVars, threadVars >>

\* quota_manager.can_reply(author_id)
CanReply(author_id) ==
    /\ ApplyCanReply(can_reply(author_id))
    /\ UNCHANGED << faultVars, Config, conflicts, now, ticks, storeVars, threadVars >>

\* quota_manager.record_reply(author_id)
RecordReply(author_id) ==
    /\ Len(reply_daily_events) < MaxReplyEvents
    /\ record_reply(author_id)
    /\ UNCHANGED << faultVars, Config, conflicts, now, ticks, storeVars, threadVars >>

InitQuota ==
    /\ Config \in QuotaConfigs
    /\ InitState

NextQuota ==
    \/ CanPost
    \/ RecordPost
    \/ \E author_id \in QuotaAuthors : CanReply(author_id)
    \/ \E author_id \in QuotaAuthors : RecordReply(author_id)
    \/ \E dt \in QuotaTimeSteps : ClockTick(dt, MaxTicks)

SpecQuota == InitQuota /\ [][NextQuota]_vars

(***************************************************************************)
(* The QuotaManager called directly, with caps configured at one, zero     *)
(* and below.                                                              *)
(***************************************************************************)
QuotaLowConfigs ==
    [ DRY_RUN : { TRUE }, REQUIRE_POST_APPROVAL : { FALSE },
      MONTHLY_WRITE_LIMIT : { 0, 2 }, MONTHLY_WRITE_LIMIT_DAYS : { 2 },
      POSTS_PER_DAY : { -1, 0 }, REPLIES_PER_DAY : { 0, 1 },
      GLOBAL_REPLIES_PER_HOUR : { 0, 1 },
      REPLIES_PER_USER_PER_HOUR : { 0, 1 } ]

InitQuotaLow ==
    /\ Config \in QuotaLowConfigs
    /\ InitState

SpecQuotaLow == InitQuotaLow /\ [][NextQuota]_vars

(***************************************************************************)
(* The duplicate check against a long history of drafts: drafts are logged *)
(* and published (replies are published without a duplicate check, so the  *)
(* same text can be posted many times), some stay unposted.                *)
(***************************************************************************)
DupFiller == TxtNews
DupTexts == { TxtHello, DupFiller }
DupCandidates == { TxtHelloVariant, TxtMoon }

Unposted == { d \in DraftIds : drafts[d].status # "posted" }

\* audit_db.log_draft(text)
DupLogDraft(text) ==
    /\ Len(drafts) < MaxDupDrafts
    /\ Cardinality(Unposted) <= MaxDupSkipped
    /\ text # DupFiller =>
           Cardinality({ d \in DraftIds : drafts[d].text # DupFiller })
               < MaxDupSpecial
    /\ log_draft(text)
    /\ UNCHANGED << faultVars, Config, conflicts, now, ticks, review_queue,
                    posts, quotaVars, threadVars >>

\* audit_db.log_posted_tweet for the newest draft, after create_tweet
DupLogPosted ==
    /\ drafts # << >>
    /\ drafts[Len(drafts)].status # "posted"
    /\ log_posted_tweet(Len(drafts), "1001", drafts[Len(drafts)].text)
    /\ UNCHANGED << faultVars, Config, conflicts, now, ticks, review_queue,
                    quotaVars, threadVars >>

InitDup ==
    /\ Config \in JobConfigs
    /\ InitState

NextDup ==
    \/ \E text \in DupTexts : DupLogDraft(text)
    \/ DupLogPosted

SpecDup == InitDup /\ [][NextDup]_vars

(***************************************************************************)
(* The safety checks called directly, and the first two steps of          *)
(* SafePoster.post, which store their result on the draft.                 *)
(***************************************************************************)
SafetyTexts == { TxtHello, TxtOk, TxtPadded, TxtFour, TxtFive, TxtAtLimit,
                 TxtOverLimit, TxtMoon, TxtOffensive, TxtBuyNow,
                 TxtDisclaimed, TxtMoonScam, TxtShortLink }

\* the texts SafePoster.post is called with
SafetyDraftTexts == { TxtHello, TxtMoonScam }

\* the sets of checks that raise during one run_safety_checks call
RaisingSets == { {}, { "length" }, { "toxicity" }, { "length", "urls" },
                 { SAFETY_CHECKS[k] : k \in 1..Len(SAFETY_CHECKS) } }

\* run_safety_checks(text), with the checks named in raising raising
RunSafetyChecks(text, raising) ==
    /\ LET res == run_safety_checks_raising(text, raising)
       IN  checked' = [done |-> TRUE, text |-> text, raising |-> raising,
                       passed |-> res.passed, flags |-> res.flags]
    /\ UNCHANGED << Config, now, ticks, conflicts, storeVars, quotaVars,
                    threadVars, writeVars, propagated, sched, auditVars >>

\* the calls made: every text without a fault, the short texts with faults too
SafetyCalls ==
    (SafetyTexts \X { {} })
        \cup ((SafetyTexts \ { TxtAtLimit, TxtOverLimit }) \X RaisingSets)

InitSafety ==
    /\ Config \in JobConfigs
    /\ InitState

NextSafety ==
    \/ \E c \in SafetyCalls : RunSafetyChecks(c[1], c[2])
    \/ \E text \in SafetyDraftTexts : PostLogDraft(text, FALSE)
    \/ EvaluateSafety("post_job")

SpecSafety == InitSafety /\ [][NextSafety]_vars

(***************************************************************************)
(* The scheduler with its two jobs and the clock.                          *)
(***************************************************************************)
SchedConfigs == [ POST_INTERVAL_HOURS : { 1 }, MENTION_POLL_MINUTES : { 1 } ]

SchedTimeSteps == { MINUTE_SECONDS, 10 * MINUTE_SECONDS, HOUR_SECONDS }

InitSched ==
    /\ Config \in SchedConfigs
    /\ InitState

NextSched ==
    \/ Start
    \/ \E j \in Threads : Process(j)
    \/ \E j \in Threads : Finish(j)
    \/ \E dt \in SchedTimeSteps : ClockTick(dt, MaxSchedTicks)

SpecSched == InitSched /\ [][NextSched]_vars

(***************************************************************************)
(* mention_job, firing after firing (scheduler.py:82-174): each firing     *)
(* polls the mentions of the account, keeps the ones naming a project      *)
(* keyword, sorts them (big accounts first, then oldest first) and, for    *)
(* each entry the QuotaManager allows, calls SafePoster.reply.  What the   *)
(* poll returns is the platform's choice among the mentions that exist.    *)
(***************************************************************************)
\* Config.PROJECT_KEYWORDS
PROJECT_KEYWORDS == { << "m","o","o","n" >> }

\* Config.BIG_ACCOUNT_FOLLOWERS
BIG_ACCOUNT_FOLLOWERS == 1000

\* the mentions of the account that exist on the platform
Mentions ==
    { [id |-> "m1", text |-> TxtMoon, author_id |-> "u1", followers |-> 10,
       created_at |-> 2],
      [id |-> "m2", text |-> TxtMoon, author_id |-> NULL, followers |-> 0,
       created_at |-> 1],
      [id |-> "m3", text |-> TxtMoon, author_id |-> NULL, followers |-> 2000,
       created_at |-> 3],
      [id |-> "m4", text |-> TxtHello, author_id |-> "u2", followers |-> 5,
       created_at |-> 4] }

\* any(k.lower() in text.lower() for k in Config.PROJECT_KEYWORDS)
NamesKeyword(text) ==
    \E k \in PROJECT_KEYWORDS : Contains(lower(text), lower(k))

is_big(entry) == entry.followers >= BIG_ACCOUNT_FOLLOWERS

\* _sort_key(entry) = (0 if is_big else 1, created_at, -followers), compared
\* as tuples
_sort_key(entry) ==
    << IF is_big(entry) THEN 0 ELSE 1, entry.created_at, 0 - entry.followers >>

TupleLess(a, b) ==
    \E i \in 1..Len(a) :
        /\ a[i] < b[i]
        /\ \A j \in 1..(i - 1) : a[j] = b[j]

\* sorted(mention_entries, key=_sort_key)
RECURSIVE sorted(_)
sorted(entries) ==
    IF entries = {} THEN << >>
    ELSE LET first == CHOOSE e \in entries :
                          \A o \in entries \ { e } :
                              TupleLess(_sort_key(e), _sort_key(o))
         IN  << first >> \o sorted(entries \ { first })

\* f'reply_to:{in_reply_to_tweet_id}'
reply_to(in_reply_to_tweet_id) == << "reply_to", in_reply_to_tweet_id >>

MentionFrame ==
    UNCHANGED << write_lock, db_lock, call, propagated, checked, sched,
                 safety_checks, Config, conflicts, now, ticks, review_queue,
                 posts >>

\* get_users_mentions(...) and the loop building mention_entries
MentionPoll(returned) ==
    /\ pc["mention_job"] = "idle"
    /\ mention_entries = << >>
    /\ Len(drafts) < MaxMentionDrafts
    /\ mention_entries' = sorted({ m \in returned : NamesKeyword(m.text) })
    /\ MentionFrame
    /\ UNCHANGED << drafts, context, quotaVars, threadVars >>

\* one turn of the loop over the sorted entries: quota.can_reply(author_id),
\* then poster.reply(reply_text, mention.id, ...) up to its log_draft
MentionReply(text) ==
    LET p == "mention_job"
        entry == Head(mention_entries)
        q == can_reply(entry.author_id)
    IN  /\ pc[p] = "idle"
        /\ mention_entries # << >>
        /\ mention_entries' = Tail(mention_entries)
        /\ ApplyCanReply(q)
        /\ IF ~q.ok
           THEN UNCHANGED << drafts, context, threadVars >>
           ELSE /\ Len(drafts) < MaxMentionDrafts
                /\ log_draft(text)
                /\ context' = Append(context, reply_to(entry.id))
                /\ run' = [run EXCEPT ![p] =
                              [NoRun EXCEPT !.draft_id = Len(drafts) + 1,
                                            !.text = text,
                                            !.author_id = entry.author_id]]
                /\ Goto(p, "drafted")
        /\ MentionFrame

MentionConfigs ==
    [ DRY_RUN : { FALSE }, REQUIRE_POST_APPROVAL : { FALSE },
      MONTHLY_WRITE_LIMIT : { 0 }, MONTHLY_WRITE_LIMIT_DAYS : { 30 },
      POSTS_PER_DAY : { 1 }, REPLIES_PER_DAY : { 4 },
      GLOBAL_REPLIES_PER_HOUR : { 4 }, REPLIES_PER_USER_PER_HOUR : { 1, 2 } ]

InitMentions ==
    /\ Config \in MentionConfigs
    /\ InitState

NextMentions ==
    \/ \E returned \in SUBSET Mentions : MentionPoll(returned)
    \/ \E text \in ReplyTexts : MentionReply(text)
    \/ EvaluateSafety("mention_job")
    \/ ReplyDecide
    \/ \E res \in call_with_backoff : ReplyGate(res)
    \/ LogPosted("mention_job")
    \/ ReplyRecord
    \/ \E dt \in PipelineTimeSteps : Tick(dt)

SpecMentions == InitMentions /\ [][NextMentions]_vars

(***************************************************************************)
(* Properties.                                                             *)
(***************************************************************************)
ReviewPending == { "pending_approval", "queued" }

\* s is what is left of t after dropping events from its front
IsSuffix(s, t) ==
    /\ Len(s) <= Len(t)
    /\ s = SubSeq(t, Len(t) - Len(s) + 1, Len(t))

\* w became w2 without gaining an event, losing only events older than len
WindowKept(w, w2, len) ==
    /\ IsSuffix(w2, w)
    /\ \A i \in 1..(Len(w) - Len(w2)) : w[i] < now - len

\* no quota window gained an event in this step
NoWindowGrew ==
    /\ IsSuffix(post_events', post_events)
    /\ IsSuffix(reply_daily_events', reply_daily_events)
    /\ IsSuffix(reply_hour_events', reply_hour_events)
    /\ \A k \in AuthorKeys :
           IsSuffix(reply_user_hour_events'[k], reply_user_hour_events[k])
    /\ IsSuffix(monthly_events', monthly_events)

\* every quota window kept its unexpired events and gained none in this step
WindowsKept ==
    /\ WindowKept(post_events, post_events', DAY_SECONDS)
    /\ WindowKept(reply_daily_events, reply_daily_events', DAY_SECONDS)
    /\ WindowKept(reply_hour_events, reply_hour_events', HOUR_SECONDS)
    /\ \A k \in AuthorKeys :
           WindowKept(reply_user_hour_events[k], reply_user_hour_events'[k],
                      HOUR_SECONDS)
    /\ WindowKept(monthly_events, monthly_events', _month_window)

\* thread p ends its call in this step
Ends(p) == pc[p] # "idle" /\ pc'[p] = "idle"

\* events of window w that are not older than len seconds
Live(w, len) == { i \in 1..Len(w) : w[i] >= now - len }

\* C1: a post or reply whose text fails the safety checks makes no
\* create_tweet call, leaves the draft in its review-pending status (until a
\* reviewer decides) and ends with exactly one review_queue row for the
\* draft, with reason safety_check_failed and priority normal.
C1_SafetyFailureQueued ==
    \A p \in Threads :
        (run[p].draft_id # 0 /\ ~passes_safety(run[p].text)) =>
            /\ run[p].calls = 0
            /\ ~run[p].was_posted
            /\ pc[p] \in { "drafted", "evaluated", "idle" }
            /\ pc[p] = "idle" =>
                 LET d == run[p].draft_id
                 IN  /\ run[p].outcome = "safety_check_failed"
                     /\ Cardinality(RowsOf(d)) = 1
                     /\ \A i \in RowsOf(d) :
                            /\ review_queue[i].reason = "safety_check_failed"
                            /\ review_queue[i].priority = "normal"
                     /\ drafts[d].reviewed_by = NULL =>
                            drafts[d].status \in ReviewPending
                     /\ PostsOf(d) = {}

C1_Witness ==
    \E p \in Threads :
        /\ pc[p] = "idle"
        /\ run[p].outcome = "safety_check_failed"
        /\ RowsOf(run[p].draft_id) # {}
        /\ drafts[run[p].draft_id].status \in ReviewPending

\* C2: every draft's status is one of the fixed status values and its
\* posted_tweet_id is set if and only if its status is posted.
C2_PostIdIffPosted ==
    \A d \in DraftIds :
        /\ drafts[d].status \in DraftStatuses
        /\ (drafts[d].posted_tweet_id # NULL) <=> (drafts[d].status = "posted")

\* C3: a quota window gains an event only in the record step of a run whose
\* create_tweet call returned, and a step that ends a run with any other
\* outcome leaves every window without a new event and with all its
\* unexpired events.
C3_QuotaOnlyOnSuccess ==
    [][ /\ ~NoWindowGrew =>
              \E p \in Threads :
                  /\ pc[p] = "logged"
                  /\ run[p].calls = 1
                  /\ Ends(p)
                  /\ run'[p].outcome = "posted"
        /\ \A p \in Threads :
              (Ends(p) /\ run'[p].outcome # "posted") =>
                  /\ WindowsKept
                  /\ run'[p].records = 0
      ]_vars

C3_Witness ==
    \E p \in Threads :
        /\ pc[p] = "idle"
        /\ run[p].outcome \in { "rate_limit_exceeded", "posting_error" }
        /\ run[p].calls = 1
        /\ monthly_events = << >>

\* the events record_post / record_reply of thread p append in this step
RecordedOnce(p) ==
    IF p = "post_job"
    THEN /\ post_events' = Append(post_events, now)
         /\ monthly_events' = Append(monthly_events, now)
    ELSE /\ reply_daily_events' = Append(reply_daily_events, now)
         /\ reply_hour_events' = Append(reply_hour_events, now)
         /\ reply_user_hour_events'[AuthorKey(run[p].author_id)] =
                Append(reply_user_hour_events[AuthorKey(run[p].author_id)], now)
         /\ monthly_events' = Append(monthly_events, now)

C5_OneRowPerDraft ==
    [][ /\ \A d \in 1..MaxStoreDrafts : Cardinality(RowsOf(d)') <= 1
        /\ \A d \in DraftIds, reason \in Reasons, priority \in Priorities :
              (QueueForReview(d, reason, priority) /\ RowsOf(d) # {}) =>
                  Len(review_queue') = Len(review_queue)
      ]_vars

C5_Witness ==
    /\ conflicts >= 1
    /\ Len(review_queue) >= 1
    /\ \E i \in 1..Len(review_queue) : review_queue[i].reviewed

\* C6: queue_for_review(draft, reason2, priority2) for a draft that already
\* has a row leaves that row with priority = priority2 and reason = reason2.
C6_UpsertUpdatesReasonAndPriority ==
    [][ \A d \in DraftIds, reason \in Reasons, priority \in Priorities :
          (QueueForReview(d, reason, priority) /\ RowsOf(d) # {}) =>
              \A i \in RowsOf(d) :
                  /\ review_queue'[i].priority = priority
                  /\ review_queue'[i].reason = reason
      ]_vars

\* high before normal before low
PriorityRank(priority) ==
    CASE priority = "high" -> 3
      [] priority = "normal" -> 2
      [] priority = "low" -> 1

\* C7: every listing get_review_queue can return is ordered by priority
\* descending (high, normal, low), then by creation time ascending, and with
\* only_unreviewed it holds exactly the rows whose reviewed flag is false.
C7_QueueOrder ==
    \A only_unreviewed \in BOOLEAN :
        \A L \in get_review_queue(only_unreviewed) :
            /\ \A i, j \in 1..Len(L) :
                   i < j =>
                     LET a == review_queue[L[i]]
                         b == review_queue[L[j]]
                     IN  \/ PriorityRank(a.priority) > PriorityRank(b.priority)
                         \/ /\ a.priority = b.priority
                            /\ a.created_at <= b.created_at
            /\ only_unreviewed =>
                   { L[i] : i \in 1..Len(L) } =
                       { r \in 1..Len(review_queue) : ~review_queue[r].reviewed }

\* C8: with a daily post cap N >= 1 and the monthly check not rejecting,
\* can_post returns (true, "") exactly when fewer than N of the record_post
\* events lie within the last 24 hours, and (false,
\* "post_daily_quota_reached") otherwise.
C8_DailyPostCap ==
    (Config.POSTS_PER_DAY >= 1 /\ _check_monthly_budget.ok) =>
        IF Cardinality(Live(post_history, DAY_SECONDS)) < Config.POSTS_PER_DAY
        THEN can_post.ok /\ can_post.reason = ""
        ELSE ~can_post.ok /\ can_post.reason = "post_daily_quota_reached"

C8_Witness ==
    /\ Config.POSTS_PER_DAY >= 1
    /\ _check_monthly_budget.ok
    /\ Len(post_history) >= Config.POSTS_PER_DAY
    /\ Len(post_events) >= Config.POSTS_PER_DAY
    /\ can_post.ok
    /\ can_post.reason = ""

\* C9: the number of unexpired events in a quota window never exceeds that
\* window's cap.
C9_NoOvershoot ==
    /\ Cardinality(Live(post_events, DAY_SECONDS)) <= Max(Config.POSTS_PER_DAY, 1)
    /\ Cardinality(Live(reply_daily_events, DAY_SECONDS))
           <= Max(Config.REPLIES_PER_DAY, 1)
    /\ Cardinality(Live(reply_hour_events, HOUR_SECONDS))
           <= Max(Config.GLOBAL_REPLIES_PER_HOUR, 1)
    /\ \A k \in AuthorKeys :
           Cardinality(Live(reply_user_hour_events[k], HOUR_SECONDS))
               <= Max(Config.REPLIES_PER_USER_PER_HOUR, 1)
    /\ Config.MONTHLY_WRITE_LIMIT > 0 =>
           Cardinality(Live(monthly_events, _month_window))
               <= Config.MONTHLY_WRITE_LIMIT

\* C10: a post or reply that ends as simulated (DRY_RUN, all gates passed)
\* leaves its draft with status posted, with no create_tweet call and no
\* quota event.
C10_SimulationMarksPosted ==
    [][ \A p \in Threads :
          (Ends(p) /\ run'[p].outcome = "simulated") =>
              /\ drafts'[run[p].draft_id].status = "posted"
              /\ run'[p].calls = 0
              /\ run'[p].records = 0
              /\ NoWindowGrew
      ]_vars


\* C11: a run whose text passed safety and whose force_review flag is set
\* ends without a create_tweet call and without consulting the quota, with
\* the draft queued for review with reason owner_approval_required at
\* priority high; for posts and for replies, whatever the quota state is.
C11_ForceReviewBeforeQuota ==
    [][ \A p \in Threads :
          (Ends(p) /\ run[p].passed_safety /\ run[p].force_review) =>
              /\ run'[p].outcome = "forced_review"
              /\ run'[p].calls = 0
              /\ UNCHANGED quotaVars
              /\ \E i \in 1..Len(review_queue') :
                     /\ review_queue'[i].draft_id = run[p].draft_id
                     /\ review_queue'[i].reason = "owner_approval_required"
                     /\ review_queue'[i].priority = "high"
      ]_vars

\* the quota check of thread p's run, evaluated in the current state
QuotaCheck(p) ==
    IF p = "post_job" THEN [ok |-> can_post.ok, reason |-> can_post.reason]
    ELSE [ok |-> can_reply(run[p].author_id).ok,
          reason |-> can_reply(run[p].author_id).reason]

\* thread p takes the step of its run that consults the quota manager
ConsultsQuota(p) ==
    /\ pc[p] = "evaluated"
    /\ pc'[p] # "evaluated"
    /\ run[p].passed_safety
    /\ p = "mention_job" => ~run[p].force_review

\* C12: when the quota check denies a run that passed safety, the run ends
\* without a create_tweet call; a post leaves one review_queue row for its
\* draft with the quota's denial reason at priority low, a reply leaves the
\* review queue as it was, with no row for its draft.
C12_QuotaDenial ==
    [][ \A p \in Threads :
          (ConsultsQuota(p) /\ ~QuotaCheck(p).ok) =>
              /\ pc'[p] = "idle"
              /\ run'[p].calls = 0
              /\ ~run'[p].was_posted
              /\ drafts' = drafts
              /\ posts' = posts
              /\ IF p = "post_job"
                 THEN /\ Len(review_queue') = Len(review_queue) + 1
                      /\ \A i \in 1..Len(review_queue') :
                             review_queue'[i].draft_id = run[p].draft_id =>
                                 /\ review_queue'[i].reason = QuotaCheck(p).reason
                                 /\ review_queue'[i].reason # ""
                                 /\ review_queue'[i].priority = "low"
                                 /\ ~review_queue'[i].reviewed
                      /\ \E i \in 1..Len(review_queue') :
                             review_queue'[i].draft_id = run[p].draft_id
                 ELSE /\ review_queue' = review_queue
                      /\ \A i \in 1..Len(review_queue) :
                             review_queue[i].draft_id # run[p].draft_id
      ]_vars

C12_Witness ==
    /\ pc["post_job"] = "idle"
    /\ run["post_job"].outcome = "quota_denied"
    /\ run["post_job"].passed_safety
    /\ \E i \in 1..Len(review_queue) :
           /\ review_queue[i].draft_id = run["post_job"].draft_id
           /\ review_queue[i].priority = "low"
           /\ review_queue[i].reason \in { "post_daily_quota_reached",
                                           "monthly_write_limit_reached" }

\* the text is at least 85% similar to one of the last 20 posted drafts
SimilarToPosted(text) ==
    \E d \in 1..Len(drafts) :
        /\ drafts[d].status = "posted"
        /\ Cardinality({ e \in 1..Len(drafts) :
                           e > d /\ drafts[e].status = "posted" }) < 20
        /\ RatioAtLeastThresh(lower(strip(text)), lower(strip(drafts[d].text)))

\* C13: the duplicate check runs for posts only, after the quota check and
\* before any publish: a post that passed the quota check and the
\* force_review test and is similar to a recent posted draft ends queued with
\* reason duplicate_recent at priority low, with no create_tweet call and
\* its draft not marked posted; a reply is never ended as a duplicate, and
\* outside DRY_RUN a reply similar to a posted draft still calls create_tweet.
C13_DuplicatePostsOnly ==
    [][ /\ LET p == "post_job"
               d == run[p].draft_id
           IN  (pc[p] = "checked" /\ pc'[p] # "checked" /\ ~run[p].force_review
                   /\ SimilarToPosted(run[p].text)) =>
                   /\ pc'[p] = "idle"
                   /\ run'[p].outcome = "duplicate_recent"
                   /\ run'[p].calls = 0
                   /\ ~run'[p].was_posted
                   /\ drafts' = drafts
                   /\ drafts[d].status # "posted"
                   /\ posts' = posts
                   /\ UNCHANGED quotaVars
                   /\ \E i \in 1..Len(review_queue') :
                          /\ review_queue'[i].draft_id = d
                          /\ review_queue'[i].reason = "duplicate_recent"
                          /\ review_queue'[i].priority = "low"
        /\ run'["post_job"].outcome = "duplicate_recent" =>
               run'["post_job"].passed_safety
        /\ LET p == "mention_job"
           IN  /\ run'[p].outcome # "duplicate_recent"
               /\ \A i \in 1..Len(review_queue') :
                      review_queue'[i].draft_id = run'[p].draft_id =>
                          review_queue'[i].reason # "duplicate_recent"
               /\ (pc[p] = "checked" /\ pc'[p] # "checked" /\ ~Config.DRY_RUN
                      /\ SimilarToPosted(run[p].text)) =>
                      run'[p].calls = 1
      ]_vars

C13_Witness ==
    /\ pc["post_job"] = "idle"
    /\ run["post_job"].outcome = "duplicate_recent"
    /\ SimilarToPosted(run["post_job"].text)
    /\ drafts[run["post_job"].draft_id].status = "queued"
    /\ \E i \in 1..Len(review_queue) :
           /\ review_queue[i].draft_id = run["post_job"].draft_id
           /\ review_queue[i].reason = "duplicate_recent"

\* thread p's create_tweet call fails in this step with the given outcome
PublishFails(p, outcome) ==
    /\ pc[p] = "checked"
    /\ pc'[p] = "idle"
    /\ run'[p].calls = run[p].calls + 1
    /\ run'[p].outcome = outcome

\* C14: when create_tweet fails with the rate-limit exception, the run ends
\* after that one call with the draft queued for review with reason
\* rate_limit_exceeded at priority high, no quota event recorded, and the
\* draft's row untouched (not marked error or posted, no PostRecord); no run
\* calls create_tweet more than once.
C14_RateLimitQueued ==
    [][ \A p \in Threads :
          /\ run'[p].calls <= 1
          /\ PublishFails(p, "rate_limit_exceeded") =>
               LET d == run[p].draft_id
               IN  /\ run'[p].calls = 1
                   /\ ~run'[p].was_posted
                   /\ run'[p].tweet_id = NULL
                   /\ run'[p].records = 0
                   /\ UNCHANGED quotaVars
                   /\ drafts' = drafts
                   /\ drafts[d].error_message = NULL
                   /\ drafts[d].posted_tweet_id = NULL
                   /\ drafts[d].status \notin { "error", "posted" }
                   /\ posts' = posts
                   /\ PostsOf(d) = {}
                   /\ Len(review_queue') = Len(review_queue) + 1
                   /\ \A i \in 1..Len(review_queue') :
                          review_queue'[i].draft_id = d =>
                              /\ review_queue'[i].reason = "rate_limit_exceeded"
                              /\ review_queue'[i].priority = "high"
      ]_vars

C14_Witness ==
    \E p \in Threads :
        /\ pc[p] = "idle"
        /\ run[p].outcome = "rate_limit_exceeded"
        /\ run[p].calls = 1
        /\ drafts[run[p].draft_id].status \in ReviewPending
        /\ \E i \in 1..Len(review_queue) :
               /\ review_queue[i].draft_id = run[p].draft_id
               /\ review_queue[i].reason = "rate_limit_exceeded"
               /\ review_queue[i].priority = "high"

\* C15: when create_tweet fails with any other exception, the run ends with
\* the draft's status error and the exception's message stored, one
\* review_queue row for the draft with reason posting_error at priority
\* high, no quota event recorded and no PostRecord of the draft.
C15_PostingErrorStored ==
    [][ \A p \in Threads :
          PublishFails(p, "posting_error") =>
              LET d == run[p].draft_id
              IN  /\ drafts'[d].status = "error"
                  /\ drafts'[d].error_message = "Exception"
                  /\ drafts'[d].posted_tweet_id = NULL
                  /\ \A e \in 1..Len(drafts) : e # d => drafts'[e] = drafts[e]
                  /\ ~run'[p].was_posted
                  /\ run'[p].records = 0
                  /\ UNCHANGED quotaVars
                  /\ posts' = posts
                  /\ PostsOf(d) = {}
                  /\ Len(review_queue') = Len(review_queue) + 1
                  /\ \A i \in 1..Len(review_queue') :
                         review_queue'[i].draft_id = d =>
                             /\ review_queue'[i].reason = "posting_error"
                             /\ review_queue'[i].priority = "high"
      ]_vars

C15_Witness ==
    \E p \in Threads :
        /\ pc[p] = "idle"
        /\ run[p].outcome = "posting_error"
        /\ drafts[run[p].draft_id].status = "error"
        /\ drafts[run[p].draft_id].error_message = "Exception"
        /\ PostsOf(run[p].draft_id) = {}
        /\ \E i \in 1..Len(review_queue) :
               /\ review_queue[i].draft_id = run[p].draft_id
               /\ review_queue[i].reason = "posting_error"

\* a reply similar to a posted draft reaches create_tweet
ReplySimilarPublished ==
    /\ run["mention_job"].calls = 1
    /\ \E d \in 1..Len(drafts) :
           /\ d # run["mention_job"].draft_id
           /\ drafts[d].status = "posted"
           /\ drafts[d].text = run["mention_job"].text

\* C16: no exception leaves a job function: whatever fails during post_job
\* or mention_job is caught before the job returns.
C16_NothingPropagates ==
    \A p \in Threads : propagated[p] = NULL

\* thread p is inside a store write: between opening the write and its
\* commit or rollback
InStoreWrite(p) == call[p].at \in { "handler", "raw" }

\* C17: every mutating store operation runs inside the process-wide write
\* lock: a thread inside a store write holds _write_lock, and at most one
\* thread is inside a store write at any time.
C17_WritesUnderLock ==
    /\ \A p \in Threads : InStoreWrite(p) => write_lock = p
    /\ Cardinality({ p \in Threads : InStoreWrite(p) }) <= 1

\* C18 as stated: a mutating store operation is attempted at most 6 times.
C18_AtMostSixAttempts ==
    \A p \in Threads : call[p].attempt <= 6

\* C18, amended: _with_retry calls fn at most max_retries + 1 = 7 times; the
\* retry after attempt n (n = 1..6) sleeps base_delay * 2^(n-1), so the
\* delays double from base_delay; 'database is locked' reaches the caller
\* only from the seventh attempt; a statement failing otherwise is raised at
\* once without a retry; and an attempt whose handler returns commits and
\* returns the handler's result with no further attempt.
C18_RetryBudget ==
    [][ \A p \in Threads :
          LET c == call[p]
              c2 == call'[p]
          IN  /\ c2.attempt <= max_retries + 1
              /\ Len(c2.slept) <= max_retries
              /\ \A i \in 1..Len(c2.slept) :
                     c2.slept[i] = IF i = 1 THEN base_delay
                                   ELSE 2 * c2.slept[i - 1]
              /\ c2.at = "loop" => Len(c2.slept) = c2.attempt
              /\ c2.at = "handler" => Len(c2.slept) = c2.attempt - 1
              /\ (c.at = "handler" /\ c2.at = "idle") =>
                     /\ c2.result = "database is locked" =>
                            /\ c.attempt = max_retries + 1
                            /\ c.stmts = 0
                            /\ UNCHANGED storeVars
                     /\ c2.result = "ok" =>
                            /\ c.stmts = Statements(c.op)
                            /\ c2.returned = HandlerResult(c.op, Tables')
                            /\ Tables' = c.conn
              /\ (c.at = "handler" /\ c.stmts = Statements(c.op)) =>
                     c2.at \in { "handler", "idle" }
      ]_vars

C18_Witness ==
    \E p \in Threads :
        /\ call[p].at = "handler"
        /\ call[p].attempt = max_retries + 1
        /\ Len(call[p].slept) = max_retries
        /\ call[p].slept[max_retries] = 1600
        /\ db_lock \notin { NULL, p }

\* thread p's call returns its handler's result in this step (commit)
Commits(p) ==
    /\ call[p].at = "handler"
    /\ call'[p].at = "idle"
    /\ call'[p].result = "ok"

\* C19: approve_for_posting and reject_draft write the draft (status,
\* reviewer) and the draft's review_queue row (reviewed, decision, notes) in
\* one transaction: the tables change only in the step that commits both,
\* every other step of the call, a failing statement included, leaves the
\* tables as they were; after the commit the draft's status equals the row's
\* reviewer_decision, and no state shows a reviewed row whose draft carries
\* no reviewer.
C19_ReviewDecisionAtomic ==
    [][ /\ \A i \in 1..Len(review_queue') :
               review_queue'[i].reviewed =>
                   drafts'[review_queue'[i].draft_id].reviewed_by = WriteReviewer
        /\ \A p \in Threads :
             LET c == call[p]
                 d == c.draft_id
             IN  (c.op \in { "approve_for_posting", "reject_draft" }
                     /\ call'[p] # c) =>
                   IF Commits(p)
                   THEN /\ drafts'[d].status = Decision(c.op)
                        /\ drafts'[d].reviewed_by = WriteReviewer
                        /\ \A e \in 1..Len(drafts) :
                               e # d => drafts'[e] = drafts[e]
                        /\ Len(review_queue') = Len(review_queue)
                        /\ \A i \in 1..Len(review_queue) :
                               IF review_queue[i].draft_id = d
                               THEN /\ review_queue'[i].reviewed
                                    /\ review_queue'[i].reviewer_decision =
                                           drafts'[d].status
                                    /\ review_queue'[i].reviewer_notes = WriteNotes
                               ELSE review_queue'[i] = review_queue[i]
                        /\ posts' = posts
                   ELSE UNCHANGED storeVars
      ]_vars

C19_Witness ==
    \E i \in 1..Len(review_queue) :
        /\ review_queue[i].reviewed
        /\ review_queue[i].reviewer_decision \in { "approved", "rejected" }
        /\ drafts[review_queue[i].draft_id].status =
               review_queue[i].reviewer_decision
        /\ \E p \in Threads : call[p].result = "Exception"

\* C20: log_posted_tweet sets the draft to posted with its external id and
\* inserts the PostRecord in one transaction: the tables change only in the
\* step that commits both writes, every other step of the call, a failing
\* statement included, leaves the tables as they were; a PostRecord is only
\* ever added by such a commit, and every PostRecord's draft carries the
\* record's external id.
C20_PostedTweetAtomic ==
    [][ /\ \A r \in 1..Len(posts') :
               drafts'[posts'[r].draft_id].posted_tweet_id = posts'[r].tweet_id
        /\ posts' # posts =>
               \E p \in Threads : call[p].op = "log_posted_tweet" /\ Commits(p)
        /\ \A p \in Threads :
             LET c == call[p]
                 d == c.draft_id
             IN  (c.op = "log_posted_tweet" /\ call'[p] # c) =>
                   IF Commits(p)
                   THEN /\ drafts'[d].status = "posted"
                        /\ drafts'[d].posted_tweet_id = WriteTweetId
                        /\ \A e \in 1..Len(drafts) :
                               e # d => drafts'[e] = drafts[e]
                        /\ posts' = Append(posts,
                               [draft_id |-> d, tweet_id |-> WriteTweetId,
                                text |-> drafts[d].text])
                        /\ review_queue' = review_queue
                   ELSE UNCHANGED storeVars
      ]_vars

C20_Witness ==
    /\ \E r \in 1..Len(posts) :
           /\ drafts[posts[r].draft_id].status = "posted"
           /\ drafts[posts[r].draft_id].posted_tweet_id = posts[r].tweet_id
    /\ \E p \in Threads : call[p].result = "Exception"

\* the flag a failed check k of SAFETY_CHECKS contributes
CheckFlags == << "text_too_long", "text_too_short", "profanity_detected",
                 "financial_advice_detected", "suspicious_urls",
                 "potential_toxicity" >>

\* the check a flag comes from: its position in SAFETY_CHECKS
Slot(flag) ==
    CHOOSE k \in 1..Len(SAFETY_CHECKS) :
        flag \in { CheckFlags[k], ErrorFlag(SAFETY_CHECKS[k]) }

\* flags follow the order of SAFETY_CHECKS, one flag per check at most
InCheckOrder(flags) ==
    /\ \A i \in 1..Len(flags) :
           \E k \in 1..Len(SAFETY_CHECKS) :
               flags[i] \in { CheckFlags[k], ErrorFlag(SAFETY_CHECKS[k]) }
    /\ \A i, j \in 1..Len(flags) : i < j => Slot(flags[i]) < Slot(flags[j])

Range(seq) == { seq[i] : i \in 1..Len(seq) }

\* the drafts whose safety result has been stored by the running post call
Evaluated ==
    { d \in DraftIds : \E p \in Threads :
          pc[p] = "evaluated" /\ run[p].draft_id = d }

\* C21: run_safety_checks reports passed exactly when its flag list is
\* empty, lists the flags in the order of the checks (length, minimum
\* length, profanity, financial advice, URLs, toxicity), gives the same
\* result when the text is evaluated again, and the passed value and flag
\* list stored on a draft agree with each other and with that result.
C21_SafetyResultConsistent ==
    /\ checked.done =>
           /\ checked.passed <=> (checked.flags = << >>)
           /\ InCheckOrder(checked.flags)
           /\ checked.raising = {} =>
                  /\ checked.passed = passes_safety(checked.text)
                  /\ checked.flags = get_safety_flags(checked.text)
    /\ \A d \in Evaluated :
           /\ drafts[d].safety_passed <=> (drafts[d].safety_flags = << >>)
           /\ drafts[d].safety_passed = passes_safety(drafts[d].text)
           /\ drafts[d].safety_flags = get_safety_flags(drafts[d].text)

\* a text failing two checks has been evaluated, and a failed result stored
C21_Witness ==
    /\ checked.done /\ checked.raising = {}
    /\ checked.flags = << "suspicious_urls", "potential_toxicity" >>
    /\ \E d \in Evaluated :
           drafts[d].safety_flags = << "financial_advice_detected",
                                       "potential_toxicity" >>

\* C22: a safety check that raises counts as failed: its <check_name>_error
\* flag is in the result, the result is not passed, and every other check
\* has still run and contributed its own flag exactly when it fails.
C22_RaisingCheckCounted ==
    checked.done =>
        \A k \in 1..Len(SAFETY_CHECKS) :
            IF SAFETY_CHECKS[k] \in checked.raising
            THEN /\ ErrorFlag(SAFETY_CHECKS[k]) \in Range(checked.flags)
                 /\ ~checked.passed
            ELSE CheckFlags[k] \in Range(checked.flags)
                     <=> ~check_func(SAFETY_CHECKS[k], checked.text).passed

\* the first check raised and the last one still flagged the text
C22_Witness ==
    /\ checked.done
    /\ checked.raising = { "length", "urls" }
    /\ checked.flags = << "length_error", "financial_advice_detected",
                          "urls_error", "potential_toxicity" >>

\* C23: the length check passes exactly up to 280 characters (280 passes,
\* 281 is flagged text_too_long) and the minimum-length check flags
\* text_too_short exactly when the trimmed text has fewer than 5 characters
\* ("ok" is flagged).
C23_LengthBounds ==
    checked.done =>
        /\ "length" \notin checked.raising =>
               ("text_too_long" \in Range(checked.flags)
                    <=> Len(checked.text) > 280)
        /\ "minimum_length" \notin checked.raising =>
               ("text_too_short" \in Range(checked.flags)
                    <=> Len(strip(checked.text)) < 5)
        /\ checked.raising = {} /\ checked.text = TxtAtLimit => checked.passed
        /\ checked.raising = {} /\ checked.text = TxtOverLimit =>
               checked.flags = << "text_too_long" >>
        /\ checked.raising = {} /\ checked.text = TxtOk =>
               checked.flags = << "text_too_short" >>

\* the 280-character text has been evaluated and has passed
C23_Witness ==
    checked.done /\ checked.raising = {} /\ Len(checked.text) = 280
        /\ checked.passed

\* app/src/safety.py: the phrases that switch its financial-claim test off
IGNORE_PHRASES == <<
    << "n","o","t"," ","f","i","n","a","n","c","i","a","l"," ","a","d","v","i","c","e" >>,
    << "n","o","t"," ","i","n","v","e","s","t","m","e","n","t"," ","a","d","v","i","c","e" >>
>>

\* C24: the safety check of the publishing pipeline flags a text with a
\* denylisted financial-advice phrase with financial_advice_detected unless
\* the text also holds a disclaimer phrase, and then raises no such flag.
C24_DisclaimerOverrides ==
    checked.done /\ "financial_advice" \notin checked.raising =>
        ("financial_advice_detected" \in Range(checked.flags)
             <=> /\ AnyKeyword(FINANCIAL_ADVICE_KEYWORDS, lower(checked.text))
                 /\ ~AnyKeyword(IGNORE_PHRASES, lower(checked.text)))

\* C25: a daily post cap, daily reply cap, hourly reply cap or per-author
\* cap configured as zero or negative disables its window, which then never
\* rejects a request; a monthly cap of zero disables the monthly check.
C25_ZeroCapDisables ==
    /\ Config.POSTS_PER_DAY <= 0 =>
           can_post.reason # "post_daily_quota_reached"
    /\ \A a \in QuotaAuthors :
           /\ Config.REPLIES_PER_DAY <= 0 =>
                  can_reply(a).reason # "reply_daily_quota_reached"
           /\ Config.GLOBAL_REPLIES_PER_HOUR <= 0 =>
                  can_reply(a).reason # "reply_global_hourly_quota_reached"
           /\ Config.REPLIES_PER_USER_PER_HOUR <= 0 =>
                  can_reply(a).reason # "reply_user_hourly_quota_reached"
           /\ Config.MONTHLY_WRITE_LIMIT <= 0 =>
                  /\ can_reply(a).reason # "monthly_write_limit_reached"
                  /\ can_post.reason # "monthly_write_limit_reached"

\* the windows that are at their cap, counted over the events still inside
MonthlyAtCap ==
    /\ Config.MONTHLY_WRITE_LIMIT > 0
    /\ Cardinality({ i \in 1..Len(monthly_events) :
                        monthly_events[i] >= now - _month_window })
           >= Config.MONTHLY_WRITE_LIMIT

PostAtCap ==
    Cardinality({ i \in 1..Len(post_events) :
                     post_events[i] >= now - DAY_SECONDS })
        >= Max(Config.POSTS_PER_DAY, 1)

ReplyDailyAtCap ==
    Cardinality({ i \in 1..Len(reply_daily_events) :
                     reply_daily_events[i] >= now - DAY_SECONDS })
        >= Max(Config.REPLIES_PER_DAY, 1)

ReplyHourlyAtCap ==
    Cardinality({ i \in 1..Len(reply_hour_events) :
                     reply_hour_events[i] >= now - HOUR_SECONDS })
        >= Max(Config.GLOBAL_REPLIES_PER_HOUR, 1)

ReplyUserAtCap(author_id) ==
    LET events == reply_user_hour_events[AuthorKey(author_id)]
    IN  Cardinality({ i \in 1..Len(events) : events[i] >= now - HOUR_SECONDS })
            >= Max(Config.REPLIES_PER_USER_PER_HOUR, 1)

Unexpired(w, len) ==
    LET keep(t) == t >= now - len
    IN  SelectSeq(w, keep)

\* the events of w are in time order
TimeOrdered(w) == \A i, j \in 1..Len(w) : i < j => w[i] <= w[j]

\* C27: every event list whose length can_post or can_reply compares with a
\* cap holds exactly the events not older than its window: the window is
\* pruned before the comparison, and as events are appended in time order,
\* popping from the front removes exactly the expired events.
C27_ComparedCountsExcludeExpired ==
    /\ TimeOrdered(post_events) /\ TimeOrdered(monthly_events)
    /\ TimeOrdered(reply_daily_events) /\ TimeOrdered(reply_hour_events)
    /\ \A k \in AuthorKeys : TimeOrdered(reply_user_hour_events[k])
    /\ Config.MONTHLY_WRITE_LIMIT > 0 =>
           _check_monthly_budget.monthly = Unexpired(monthly_events, _month_window)
    /\ _check_monthly_budget.ok =>
           can_post.post = Unexpired(post_events, DAY_SECONDS)
    /\ \A a \in QuotaAuthors :
           LET q == can_reply(a)
               k == AuthorKey(a)
           IN  /\ _check_monthly_budget.ok =>
                      q.daily = Unexpired(reply_daily_events, DAY_SECONDS)
               /\ q.reason \in { "reply_global_hourly_quota_reached",
                                 "reply_user_hourly_quota_reached", "" } =>
                      q.hourly = Unexpired(reply_hour_events, HOUR_SECONDS)
               /\ q.reason \in { "reply_user_hourly_quota_reached", "" } =>
                      q.user[k] = Unexpired(reply_user_hour_events[k], HOUR_SECONDS)

\* two post events, both expired, and can_post compares an empty window
C27_Witness ==
    /\ Len(post_events) = 2
    /\ post_events[2] < now - DAY_SECONDS
    /\ _check_monthly_budget.ok
    /\ can_post.post = << >>
    /\ reply_hour_events # << >>
    /\ can_reply("u1").hourly = << >>

\* the scheduler handles a due firing of job j in this step
Fired(j) ==
    sched[j].added /\ sched'[j].next_run_time # sched[j].next_run_time

\* C28: each job has at most one execution in flight; a firing that comes
\* while the job's previous execution is still running is dropped (several
\* due firings count as one), never queued or run beside it; executions of
\* post_job and mention_job may overlap.
C28_SingleInFlight ==
    [][\A j \in Threads :
           /\ sched'[j].instances <= 1
           /\ sched'[j].runs <= 1
           /\ (Fired(j) /\ sched[j].instances >= 1) =>
                  /\ sched'[j].instances = sched[j].instances
                  /\ sched'[j].last = "skipped"
                  /\ \A k \in Threads \ { j } : sched'[k] = sched[k]]_vars

\* both jobs are running, and a firing of mention_job has been dropped
C28_Witness ==
    /\ sched["post_job"].instances = 1
    /\ sched["mention_job"].instances = 1
    /\ sched["mention_job"].last = "skipped"

\* C30: when the store cannot be read, the duplicate check reports "not a
\* duplicate" and raises nothing: the post is not ended as duplicate_recent,
\* no duplicate_recent row is queued for its draft, no exception leaves the
\* job, and the call goes on to the next stage (the simulated post under
\* DRY_RUN, the create_tweet call otherwise).
C30_DuplicateCheckFailsOpen ==
    [][(pc["post_job"] = "unreadable" \/ pc'["post_job"] = "unreadable") =>
           LET p == "post_job"
               d == run[p].draft_id
           IN  /\ run'[p].outcome # "duplicate_recent"
               /\ pc'[p] = "unreadable" => run'[p] = run[p]
               /\ pc'[p] # "unreadable" =>
                      \/ pc'[p] = "published"
                      \/ /\ pc'[p] = "idle"
                         /\ run'[p].outcome \in { "simulated", "posting_error",
                                                   "rate_limit_exceeded" }
               /\ \A i \in 1..Len(review_queue') :
                      review_queue'[i].draft_id = d =>
                          review_queue'[i].reason # "duplicate_recent"
               /\ propagated' = propagated
               /\ pc[p] = "unreadable" /\ pc'[p] # "unreadable" =>
                      IF Config.DRY_RUN
                      THEN run'[p].outcome = "simulated"
                      ELSE run'[p].calls = run[p].calls + 1]_vars

\* the duplicate check could not read the store while a similar posted draft
\* exists, and the post is about to go on
C30_Witness ==
    LET p == "post_job"
    IN  /\ pc[p] = "unreadable"
        /\ run[p].calls = 0
        /\ propagated[p] = NULL
        /\ SimilarToPosted(run[p].text)

\* draft d has a recorded outcome: posted (or simulated as posted), errored,
\* or queued for review
Settled(d) ==
    \/ drafts[d].status \in { "posted", "error" }
    \/ RowsOf(d) # {}

\* C29: every call of post or reply that has created a draft and has ended
\* left the draft with a terminal outcome: queued for review, posted or
\* simulated, errored and queued, or, for a reply, skipped on quota; also
\* when the publish call or a store write failed.
C29_EveryDraftSettled ==
    \A p \in Threads :
        (pc[p] = "idle" /\ run[p].draft_id # 0) =>
            \/ Settled(run[p].draft_id)
            \/ p = "mention_job" /\ run[p].outcome = "quota_denied"

\* the posted drafts among the DupWindow most recently posted ones
InWindow ==
    { d \in DraftIds :
        /\ drafts[d].status = "posted"
        /\ Cardinality({ e \in DraftIds : e > d /\ drafts[e].status = "posted" })
               < DupWindow }

\* the drafts of the window whose text is similar to the candidate
Matches(text) ==
    { d \in InWindow :
        RatioAtLeastThresh(lower(strip(text)), lower(strip(drafts[d].text))) }

SafetyStored ==
    { d \in DraftIds : \E p \in Threads :
          run[p].draft_id = d /\ pc[p] \notin { "idle", "drafted" } }

\* C32: once a pipeline run has evaluated safety for a draft, table
\* safety_checks holds exactly one row for each (draft, check name) pair,
\* carrying that check's pass / fail result.
C32_SafetyCheckRecords ==
    \A d \in SafetyStored :
        \A k \in 1..Len(SAFETY_CHECKS) :
            LET rows == { i \in 1..Len(safety_checks) :
                            /\ safety_checks[i].draft_id = d
                            /\ safety_checks[i].check_name = SAFETY_CHECKS[k] }
            IN  /\ Cardinality(rows) = 1
                /\ \A i \in rows :
                       safety_checks[i].passed
                           = check_func(SAFETY_CHECKS[k], drafts[d].text).passed

\* the posted replies to mention m
RepliedTo(m) ==
    { d \in DraftIds : context[d] = reply_to(m) /\ drafts[d].status = "posted" }

\* C39: over the firings of mention_job, at most one reply is published to
\* a given mention.
C39_AtMostOneReply ==
    \A m \in Mentions : Cardinality(RepliedTo(m.id)) <= 1

\* the author of the mention draft d replies to
AuthorOf(d) ==
    LET m == CHOOSE m \in Mentions : context[d] = reply_to(m.id)
    IN  m.author_id

\* the window that counts the replies to an author: the author's own, and
\* the one named "unknown" for an absent author
WindowOf(author_id) ==
    IF author_id = NULL THEN reply_user_hour_events["unknown"]
    ELSE reply_user_hour_events[author_id]

\* the published replies to mentions of this author for which record_reply
\* has been called
Recorded(author_id) ==
    { d \in DraftIds :
          /\ drafts[d].status = "posted"
          /\ AuthorOf(d) = author_id
          /\ ~(pc["mention_job"] = "logged" /\ run["mention_job"].draft_id = d) }

\* C34: the per-author hourly window is keyed by the author: an author's
\* window holds the replies recorded for that author and no others (all of
\* them while no time has passed), the replies to absent authors are counted
\* together in the window "unknown", and can_reply reports the per-author
\* cap for an author only when that many replies were recorded for that
\* same author.
C34_PerAuthorWindow ==
    \A author_id \in AuthorIds :
        /\ Len(WindowOf(author_id)) <= Cardinality(Recorded(author_id))
        /\ ticks = 0 =>
               Len(WindowOf(author_id)) = Cardinality(Recorded(author_id))
        /\ can_reply(author_id).reason = "reply_user_hourly_quota_reached" =>
               Cardinality(Recorded(author_id))
                   >= Max(Config.REPLIES_PER_USER_PER_HOUR, 1)

\* two absent-author mentions fill the "unknown" window while the window of
\* author u1, who was answered too, still admits a reply
C34_Witness ==
    /\ can_reply(NULL).reason = "reply_user_hourly_quota_reached"
    /\ \E d1, d2 \in Recorded(NULL) : context[d1] # context[d2]
    /\ Recorded("u1") # {}
    /\ can_reply("u1").ok

\* a step that adds no event to any window (it may prune expired ones)
NoEventAdded ==
    /\ IsSuffix(post_events', post_events)
    /\ IsSuffix(monthly_events', monthly_events)
    /\ IsSuffix(reply_daily_events', reply_daily_events)
    /\ IsSuffix(reply_hour_events', reply_hour_events)
    /\ \A key \in AuthorKeys :
           IsSuffix(reply_user_hour_events'[key], reply_user_hour_events[key])

\* the effect of record_post on the windows
PostRecorded ==
    /\ post_events' = Append(post_events, now)
    /\ monthly_events' = Append(monthly_events, now)
    /\ UNCHANGED << reply_daily_events, reply_hour_events,
                    reply_user_hour_events >>

\* the effect of record_reply(author_id) on the windows
ReplyRecorded(author_id) ==
    /\ reply_daily_events' = Append(reply_daily_events, now)
    /\ reply_hour_events' = Append(reply_hour_events, now)
    /\ monthly_events' = Append(monthly_events, now)
    /\ \A key \in AuthorKeys :
           reply_user_hour_events'[key] =
               IF key = (IF author_id = NULL THEN "unknown" ELSE author_id)
               THEN Append(reply_user_hour_events[key], now)
               ELSE reply_user_hour_events[key]
    /\ UNCHANGED post_events

AwaitsReview(d) ==
    \E i \in 1..Len(review_queue) :
        review_queue[i].draft_id = d /\ ~review_queue[i].reviewed

\* C35: approve_for_posting and reject_draft change the status of a draft
\* only when it has an unreviewed review_queue entry; called on a draft that
\* is posted, already reviewed or never queued they leave its status as it
\* is.
C35_DecisionNeedsPendingEntry ==
    [][ \A d \in DraftIds :
            drafts'[d].status # drafts[d].status => AwaitsReview(d) ]_vars

\* draft d is listed by get_review_queue(only_unreviewed=True)
Listed(d) ==
    \E i \in SelectedRows(TRUE) : review_queue[i].draft_id = d

\* C36: after queue_for_review(d, reason, priority) has returned, d is
\* listed by get_review_queue(only_unreviewed=True), also when d had a queue
\* entry before the call (then the call is the step that counts a conflict
\* on the draft_id column, and the draft it names is one of those with an
\* entry).
C36_RequeuedListed ==
    [][ /\ \A d \in DraftIds :
               /\ Len(review_queue') > Len(review_queue)
               /\ review_queue'[Len(review_queue')].draft_id = d
               => Listed(d)'
        /\ conflicts' > conflicts =>
               \E d \in DraftIds : RowsOf(d) # {} /\ Listed(d)' ]_vars

\* thread p sleeps between two attempts of a store write
InBackoff(p) == call[p].at = "loop" /\ call[p].slept # << >>

\* C37: a writer waiting in retry backoff does not hold the process-wide
\* write lock: the lock is held only inside an attempt, never by a thread
\* between two attempts, so another thread's write can take it meanwhile.
C37_BackoffReleasesLock ==
    \A p \in Threads :
        /\ InBackoff(p) => write_lock # p
        /\ write_lock = p => call[p].at = "handler"

\* while one thread sleeps between attempts, the other one holds the write
\* lock with its handler run to the end, ready to commit
C37_Witness ==
    \E p, q \in Threads :
        /\ p # q
        /\ InBackoff(p)
        /\ write_lock = q
        /\ call[q].at = "handler"
        /\ call[q].stmts = Statements(call[q].op)

\* C38: a store write whose handler raises, or that fails after its retries
\* are used up, commits nothing (no step of the call but its commit changes
\* the tables), ends with the write lock released and its connection closed;
\* only lock contention is retried, any other error ends the call at once.
C38_FailedWriteCommitsNothing ==
    [][ \A p \in Threads :
          LET c == call[p]
              c2 == call'[p]
          IN  /\ (c.op \in WriteOps /\ c2 # c /\ ~Commits(p)) =>
                     UNCHANGED storeVars
              /\ (c.at = "handler" /\ c2.at = "idle" /\ c2.result # "ok") =>
                     /\ write_lock = p
                     /\ write_lock' = NULL
                     /\ db_lock' # p
                     /\ c2.conn = NoTables
                     /\ c2.result \in { "Exception", "database is locked" }
                     /\ c2.result = "database is locked" =>
                            c.attempt = max_retries + 1
              /\ (c.at = "handler" /\ c2.at = "loop") =>
                     /\ c.stmts = 0
                     /\ db_lock \notin { NULL, p }
      ]_vars

\* a write has ended on its handler raising, its locks are free again and
\* the tables show no decision and no post
C38_Witness ==
    \E p \in Threads :
        /\ call[p].result = "Exception"
        /\ call[p].at = "idle"
        /\ write_lock # p
        /\ db_lock # p
        /\ drafts # << >>
        /\ posts = << >>
        /\ \A d \in DraftIds : drafts[d].status \notin { "posted", "approved", "rejected" }

\* the post call reaches the duplicate check in this step: it has passed
\* safety and quota and has not been asked for a forced review
AtDuplicateCheck ==
    /\ pc["post_job"] = "checked"
    /\ pc'["post_job"] # "checked"
    /\ ~run["post_job"].force_review

=============================================================================
